---------------------------- MODULE Spec2Model ----------------------------
(***************************************************************************)
(* Model of the environment-orchestration core of buckyos-devkit           *)
(* (src/src/remote): the template resolver of the workspace, the singleton *)
(* VMManager, the multipass backend, the workspace orchestration and the   *)
(* command-line handlers of install, update, start and exec.               *)
(*                                                                         *)
(* Text is modelled as a sequence of one-character strings, so that the    *)
(* regular expression of the resolver is computed character by character.  *)
(***************************************************************************)
EXTENDS Integers, Sequences, FiniteSets, TLC

VARIABLES
    text,           \* resolve_string: the template passed in
    env_params,     \* resolve_string: the environment snapshot passed in
    resolved,       \* resolve_string: what the call produced
    VMManager_instance,      \* VMManager._instance: 0 (None) or an object of heap
    VMManager_backend_type,  \* VMManager._backend_type: "None" or a backend type
    heap,           \* the VMManager objects allocated: their instance attributes
    requests,       \* the construction requests made so far and their outcomes
    multipass,      \* the provider: per VM name its state and its snapshots
    calls,          \* the provider CLI calls issued by the operation in hand
    be_last,        \* backend: the operation that returned last, and its result
    be_prev,        \* backend: the operation that returned before be_last, where
                    \* the steps remember it
    be_args,        \* remote device: the arguments and the surroundings of be_last
    nodes,          \* Workspace.nodes: the node ids in dictionary order, and VMConfigs
    instance_order, \* VMNodeList.instance_order
    ws_pc,          \* where the workspace operation in hand stands
    ws_i,           \* create_vms: index of the node the create loop is at
    ws_k,           \* create_vms: index in instance_order
    ws_j,           \* create_vms: index in the node's instance_commands
    ws_env,         \* create_vms: the environment snapshot built (<<>> before)
    ws_mark,        \* create_vms: number of calls issued when the snapshot was built
    ws_error,       \* the exception the operation ended with, "none" otherwise
    app_list,       \* Workspace.app_list: the app names in load order, and AppConfigs
    ws_op,          \* the command-line handler in hand and its arguments
    processed,      \* handler: the devices handed to the workspace so far, with outcomes
    local_tree,     \* clog: the target directory on the controlling host
    clog_runs       \* clog: how each run so far ended, and the tree it left

resolveVars == <<text, env_params, resolved>>
mgrVars == <<VMManager_instance, VMManager_backend_type, heap, requests>>

beVars == <<multipass, calls, be_last, be_prev, be_args>>

wsVars == <<nodes, instance_order, ws_pc, ws_i, ws_k, ws_j, ws_env, ws_mark, ws_error>>

appVars == <<app_list, ws_op, processed>>

fsVars == <<local_tree, clog_runs>>

vars == <<resolveVars, mgrVars, beVars, wsVars, appVars, fsVars>>

(***************************************************************************)
(* Bounds of the model.                                                    *)
(***************************************************************************)
\* a template of the resolver's input set is a concatenation of at most
\* MaxPieces pieces of TemplatePieces
MaxPieces == 2
\* at most MaxRequests construction requests are made to VMManager
MaxRequests == 4
\* the clog command is given at most MaxClogRuns times in a row
MaxClogRuns == 2

(***************************************************************************)
(* Characters and strings.                                                 *)
(***************************************************************************)
\* the characters of the model that Python's \w matches
WordChars ==
    {"a", "b", "c", "d", "e", "i", "m", "n", "p", "r", "s", "t", "v", "x", "y",
     "z", "_", "0", "1", "2", "7", "9"}

S_a == <<"a">>
S_b == <<"b">>
S_z == <<"z">>
S_x == <<"x">>
S_a_b == <<"a", "-", "b">>
S_ip == <<"i", "p">>
S_device_id == <<"d", "e", "v", "i", "c", "e", "_", "i", "d">>
S_system == <<"s", "y", "s", "t", "e", "m">>
S_base_dir == <<"b", "a", "s", "e", "_", "d", "i", "r">>
IP_10 == <<"1", "0", ".", "0", ".", "0", ".", "1">>
IP_192 == <<"1", "9", "2", ".", "0", ".", "0", ".", "2">>
IP_172 == <<"1", "7", "2", ".", "0", ".", "0", ".", "7">>

RECURSIVE Concat(_)
Concat(ss) == IF ss = <<>> THEN <<>> ELSE Head(ss) \o Concat(Tail(ss))

\* the text "{{obj.attr}}"
Ref(obj, attr) == <<"{", "{">> \o obj \o <<".">> \o attr \o <<"}", "}">>

(***************************************************************************)
(* Workspace.resolve_string and Workspace._VARIABLE_PATTERN.               *)
(***************************************************************************)
\* \w+ is greedy: the first index after the maximal run of word characters
\* that starts at i (i itself when there is none)
RECURSIVE WordRunEnd(_, _)
WordRunEnd(s, i) ==
    IF i <= Len(s) /\ s[i] \in WordChars THEN WordRunEnd(s, i + 1) ELSE i

NoMatch == [ok |-> FALSE, obj |-> <<>>, attr |-> <<>>, end |-> 0]

\* mutant of VARIABLE_PATTERN_match: the attribute group is \w instead of \w+
VARIABLE_PATTERN_match_single(s, i) ==
    LET j == WordRunEnd(s, i + 2)
        k == j + 2
    IN  IF /\ i + 1 <= Len(s) /\ s[i] = "{" /\ s[i + 1] = "{"
           /\ j > i + 2 /\ j <= Len(s) /\ s[j] = "."
           /\ k + 1 <= Len(s) /\ s[j + 1] \in WordChars
           /\ s[k] = "}" /\ s[k + 1] = "}"
        THEN [ok |-> TRUE, obj |-> SubSeq(s, i + 2, j - 1),
              attr |-> SubSeq(s, j + 1, k - 1), end |-> k + 2]
        ELSE NoMatch

\* _VARIABLE_PATTERN = \{\{(\w+)\.(\w+)\}\} matched at position i of s.
\* Neither group can hold '.', '{' or '}', so only the maximal runs can match.
VARIABLE_PATTERN_match(s, i) ==
    LET j == WordRunEnd(s, i + 2)
        k == WordRunEnd(s, j + 1)
    IN  IF /\ i + 1 <= Len(s) /\ s[i] = "{" /\ s[i + 1] = "{"
           /\ j > i + 2 /\ j <= Len(s) /\ s[j] = "."
           /\ k > j + 1 /\ k + 1 <= Len(s)
           /\ s[k] = "}" /\ s[k + 1] = "}"
        THEN [ok |-> TRUE, obj |-> SubSeq(s, i + 2, j - 1),
              attr |-> SubSeq(s, j + 1, k - 1), end |-> k + 2]
        ELSE NoMatch

Raise == [raised |-> TRUE, value |-> <<>>]
Return(v) == [raised |-> FALSE, value |-> v]

\* mutant of replace_var: a missing object or attribute defaults to ""
replace_var_default(m, env) ==
    IF m.obj \notin DOMAIN env THEN Return(<<>>)
    ELSE IF m.attr \notin DOMAIN env[m.obj] THEN Return(<<>>)
    ELSE Return(env[m.obj][m.attr])

\* the callback of re.sub: dict.get yields None for a missing key, and None
\* raises ValueError
replace_var(m, env) ==
    IF m.obj \notin DOMAIN env THEN Raise
    ELSE IF m.attr \notin DOMAIN env[m.obj] THEN Raise
    ELSE Return(env[m.obj][m.attr])

\* the place of a substituted reference in the skeleton of the output
SUBST == "<subst>"

\* re.sub: scan left to right from i; a match is replaced by the callback's
\* value and the scan resumes after it, any other character is copied.  An
\* exception of the callback leaves re.sub without a result.  skeleton is
\* the output with every substituted value shown as SUBST.
RECURSIVE pattern_sub(_, _, _, _, _)
pattern_sub(s, env, i, out, skel) ==
    IF i > Len(s)
    THEN [raised |-> FALSE, returned |-> TRUE, value |-> out, skeleton |-> skel]
    ELSE LET m == VARIABLE_PATTERN_match(s, i)
         IN  IF m.ok
             THEN LET r == replace_var(m, env)
                  IN  IF r.raised
                      THEN [raised |-> TRUE, returned |-> FALSE,
                            value |-> <<>>, skeleton |-> <<>>]
                      ELSE pattern_sub(s, env, m.end, out \o r.value,
                                       Append(skel, SUBST))
             ELSE pattern_sub(s, env, i + 1, Append(out, s[i]), Append(skel, s[i]))

resolve_string(t, env) == pattern_sub(t, env, 1, <<>>, <<>>)

(***************************************************************************)
(* Inputs of the resolver: well-formed snapshots (an object key maps to a  *)
(* flat mapping of attribute names to strings) and templates.              *)
(***************************************************************************)
DeviceInfo(id, ip) == (S_device_id :> id) @@ (S_ip :> ip)
SystemEnv == (S_base_dir :> <<"/", "x">>)

Snapshots ==
    { (S_system :> SystemEnv) @@ (S_a :> DeviceInfo(S_a, IP_10)),
      (S_system :> SystemEnv) @@ (S_a :> DeviceInfo(S_a, IP_10))
                              @@ (S_b :> DeviceInfo(S_b, IP_192)),
      (S_system :> SystemEnv) @@ (S_a :> DeviceInfo(S_a, IP_10))
                              @@ (S_a_b :> DeviceInfo(S_a_b, IP_172)) }

TemplatePieces ==
    { Ref(S_a, S_ip), Ref(S_b, S_ip), Ref(S_a, S_device_id),
      Ref(S_system, S_base_dir), Ref(S_z, S_ip), Ref(S_a, S_x),
      Ref(S_a_b, S_ip),
      <<"x">>, <<" ">>, <<"{">>, <<"}">>, <<"{", "{">>, <<".">> }

RECURSIVE PieceSeqs(_)
PieceSeqs(n) ==
    IF n = 0 THEN {<<>>}
    ELSE LET shorter == PieceSeqs(n - 1)
         IN  shorter \cup {Append(ps, p) : ps \in {q \in shorter : Len(q) = n - 1},
                                            p \in TemplatePieces}

Templates == {Concat(ps) : ps \in PieceSeqs(MaxPieces)}

NotCalled == [called |-> FALSE, raised |-> FALSE, returned |-> FALSE,
              value |-> <<>>, skeleton |-> <<>>]

ResolveInit ==
    /\ text \in Templates
    /\ env_params \in Snapshots
    /\ resolved = NotCalled

\* one call resolve_string(text, env_params)
ResolveString ==
    /\ ~resolved.called
    /\ resolved' = [called |-> TRUE] @@ resolve_string(text, env_params)
    /\ UNCHANGED <<text, env_params>>
    /\ UNCHANGED <<mgrVars, fsVars, beVars, wsVars, appVars>>

ResolveIdle ==
    /\ text = <<>>
    /\ env_params = (S_system :> SystemEnv)
    /\ resolved = NotCalled

(***************************************************************************)
(* VMManager: the process-wide singleton that binds one backend.           *)
(***************************************************************************)
\* the backend types a caller may name; only "multipass" is implemented
BackendTypes == {"multipass", "docker", "kvm"}

NoObject == 0

\* an object as object.__new__ leaves it: no _initialized, no backend
FreshObject == [initialized |-> FALSE, backend |-> NoObject]

\* mutant of VMManager_new: every request allocates a new object
VMManager_new_always(m) ==
    LET o == Cardinality(DOMAIN m.heap) + 1
    IN  [m EXCEPT !.instance = o, !.heap = m.heap @@ (o :> FreshObject)]

\* VMManager.__new__ on the class state m = [instance, backend_type, heap]:
\* the first request allocates the object, every later one finds it
VMManager_new(m) ==
    IF m.instance = NoObject
    THEN LET o == Cardinality(DOMAIN m.heap) + 1
         IN  [m EXCEPT !.instance = o, !.heap = m.heap @@ (o :> FreshObject)]
    ELSE m

\* mutant of VMManager_init: an initialized manager accepts any backend type
VMManager_init_unchecked(m, self, backend_type) ==
    IF m.heap[self].initialized
    THEN [m |-> m, raised |-> "none"]
    ELSE IF backend_type = "multipass"
         THEN [m |-> [m EXCEPT !.heap[self] = [initialized |-> TRUE, backend |-> self],
                               !.backend_type = backend_type],
               raised |-> "none"]
         ELSE [m |-> m, raised |-> "ValueError"]

\* mutant of VMManager_init: the backend type is recorded before it is
\* checked
VMManager_init_records_first(m, self, backend_type) ==
    IF m.heap[self].initialized
    THEN IF backend_type # m.backend_type
         THEN [m |-> [m EXCEPT !.backend_type = backend_type], raised |-> "ValueError"]
         ELSE [m |-> m, raised |-> "none"]
    ELSE IF backend_type = "multipass"
         THEN [m |-> [m EXCEPT !.heap[self] = [initialized |-> TRUE, backend |-> self],
                               !.backend_type = backend_type],
               raised |-> "none"]
         ELSE [m |-> [m EXCEPT !.backend_type = backend_type], raised |-> "ValueError"]

\* VMManager.__init__(self, backend_type).  The MultipassVMBackend made for
\* object self is named by self.
VMManager_init(m, self, backend_type) ==
    IF m.heap[self].initialized
    THEN IF backend_type # m.backend_type
         THEN [m |-> m, raised |-> "ValueError"]
         ELSE [m |-> m, raised |-> "none"]
    ELSE IF backend_type = "multipass"
         THEN [m |-> [m EXCEPT !.heap[self] = [initialized |-> TRUE, backend |-> self],
                               !.backend_type = backend_type],
               raised |-> "none"]
         ELSE [m |-> m, raised |-> "ValueError"]

\* the call VMManager(backend_type): __new__, then __init__ on its result;
\* an exception of __init__ leaves the caller without a manager
VMManager_call(m, backend_type) ==
    LET m1 == VMManager_new(m)
        r == VMManager_init(m1, m1.instance, backend_type)
    IN  [m |-> r.m, raised |-> r.raised,
         ret |-> IF r.raised = "none" THEN m1.instance ELSE NoObject]

MgrState == [instance |-> VMManager_instance,
             backend_type |-> VMManager_backend_type,
             heap |-> heap]

MgrInit ==
    /\ VMManager_instance = NoObject
    /\ VMManager_backend_type = "None"
    /\ heap = <<>>
    /\ requests = <<>>

MgrIdle == MgrInit

Request(backend_type, r) ==
    /\ Len(requests) < MaxRequests
    /\ VMManager_instance' = r.m.instance
    /\ VMManager_backend_type' = r.m.backend_type
    /\ heap' = r.m.heap
    /\ requests' = Append(requests,
                          [backend_type |-> backend_type, raised |-> r.raised,
                           ret |-> r.ret,
                           backend |-> IF r.ret = NoObject THEN NoObject
                                       ELSE r.m.heap[r.ret].backend])
    /\ UNCHANGED <<resolveVars, fsVars, beVars, wsVars, appVars>>

\* VMManager(backend_type), as RemoteDevice and VMRemoteDevice call it
ConstructVMManager ==
    \E backend_type \in BackendTypes :
        Request(backend_type, VMManager_call(MgrState, backend_type))

\* VMManager.get_instance()
GetInstance == Request("multipass", VMManager_call(MgrState, "multipass"))

(***************************************************************************)
(* The provider CLI (multipass), as the backend calls it.  A call exits 0  *)
(* or non-zero; it can exit 0 only when the provider's state allows it,    *)
(* and it may fail in any state.  A failed call changes nothing.           *)
(***************************************************************************)
VMNames == {S_a, S_b}
SnapshotNames == {"snap1"}

Instance(state, snaps) == [state |-> state, snaps |-> snaps]
NoInstances == [n \in VMNames |-> Instance("absent", {})]

Call(cmd, vm, arg, outcome) == [cmd |-> cmd, vm |-> vm, arg |-> arg, outcome |-> outcome]

\* whether the provider can carry out cmd on vm in state prov
CanSucceed(prov, cmd, vm, arg) ==
    CASE cmd = "launch"   -> prov[vm].state = "absent"
      [] cmd = "delete"   -> prov[vm].state \in {"running", "stopped"}
      [] cmd = "purge"    -> TRUE
      [] cmd = "stop"     -> prov[vm].state \in {"running", "stopped"}
      [] cmd = "start"    -> prov[vm].state \in {"running", "stopped"}
      [] cmd = "snapshot" -> prov[vm].state = "stopped"
      [] cmd = "restore"  -> prov[vm].state = "stopped" /\ arg \in prov[vm].snaps
      [] cmd = "exec"     -> prov[vm].state = "running"
      [] cmd = "list"     -> TRUE
      [] cmd = "transfer" -> prov[vm].state = "running"
      [] OTHER            -> FALSE

\* the provider's state after cmd has exited 0
Effect(prov, cmd, vm, arg) ==
    CASE cmd = "launch"   -> [prov EXCEPT ![vm] = Instance("running", {})]
      [] cmd = "delete"   -> [prov EXCEPT ![vm].state = "deleted"]
      [] cmd = "purge"    -> [n \in DOMAIN prov |->
                                 IF prov[n].state = "deleted"
                                 THEN Instance("absent", {}) ELSE prov[n]]
      [] cmd = "stop"     -> [prov EXCEPT ![vm].state = "stopped"]
      [] cmd = "start"    -> [prov EXCEPT ![vm].state = "running"]
      [] cmd = "snapshot" -> [prov EXCEPT ![vm].snaps = @ \cup {arg}]
      [] OTHER            -> prov

\* the exit of one CLI call whose oracle is o: "ok" needs CanSucceed
Exit(prov, cmd, vm, arg, o) ==
    IF o = "ok" /\ CanSucceed(prov, cmd, vm, arg) THEN "ok" ELSE "nonzero"

(***************************************************************************)
(* MultipassVMBackend.  Every operation takes the provider's state and the *)
(* oracle o of its CLI calls, and yields the provider's new state, the     *)
(* calls it issued, what it returned and whether it raised.                *)
(***************************************************************************)
Result(prov, cs, ret, raised) == [prov |-> prov, calls |-> cs, ret |-> ret, raised |-> raised]

\* subprocess.run(..., check=True) of the commands cmds in order inside one
\* try block: the first non-zero exit raises CalledProcessError, which ends
\* the block.  cmds[n] = <<cmd, vm, arg>>, o[n] its oracle.
RECURSIVE run_checked(_, _, _, _, _)
run_checked(prov, cmds, o, n, cs) ==
    IF n > Len(cmds) THEN [prov |-> prov, calls |-> cs, failed |-> FALSE]
    ELSE LET c == cmds[n]
             e == Exit(prov, c[1], c[2], c[3], o[n])
             cs1 == Append(cs, Call(c[1], c[2], c[3], e))
         IN  IF e = "ok"
             THEN run_checked(Effect(prov, c[1], c[2], c[3]), cmds, o, n + 1, cs1)
             ELSE [prov |-> prov, calls |-> cs1, failed |-> TRUE]

\* what exec_command returns for each way subprocess.run can end
ExecOutcomes == {"ok", "nonzero", "timeout", "error"}
ExecReturn(e) ==
    CASE e = "ok"      -> [stdout |-> "out", stderr |-> ""]
      [] e = "nonzero" -> [stdout |-> "", stderr |-> "err"]
      [] e = "timeout" -> [stdout |-> "None", stderr |-> "Command execution timed out"]
      [] OTHER         -> [stdout |-> "None", stderr |-> "str(e)"]

\* how "multipass exec" ends under oracle o: exit 0 needs a running VM
ExecExit(prov, vm, o) ==
    IF o = "ok" /\ ~CanSucceed(prov, "exec", vm, <<>>) THEN "nonzero" ELSE o

\* MultipassVMBackend.exec_command: no check=True, every exception caught
exec_command(prov, vm_name, command, o) ==
    LET e == ExecExit(prov, vm_name, o)
    IN  Result(prov, <<Call("exec", vm_name, command, e)>>, ExecReturn(e), "none")

\* the loop "for cmd in init_cmds: self.exec_command(vm_name, cmd)"
RECURSIVE exec_all(_, _, _, _, _, _)
exec_all(prov, vm_name, cmds, o, n, cs) ==
    IF n > Len(cmds) THEN cs
    ELSE exec_all(prov, vm_name, cmds, o, n + 1,
                  cs \o exec_command(prov, vm_name, cmds[n], o[n]).calls)

\* mutant of create_vm: the init commands run although the launch failed
create_vm_init_anyway(prov, vm_name, config, o) ==
    LET launch == run_checked(prov, <<<<"launch", vm_name, <<>>>>>>, o, 1, <<>>)
    IN  Result(launch.prov,
               exec_all(launch.prov, vm_name, config.init_commands, Tail(o), 1,
                        launch.calls),
               ~launch.failed, "none")

\* mutant of create_vm: a failed launch is reported as success
create_vm_reports_true(prov, vm_name, config, o) ==
    LET launch == run_checked(prov, <<<<"launch", vm_name, <<>>>>>>, o, 1, <<>>)
    IN  IF launch.failed
        THEN Result(launch.prov, launch.calls, TRUE, "none")
        ELSE Result(launch.prov,
                    exec_all(launch.prov, vm_name, config.init_commands, Tail(o), 1,
                             launch.calls),
                    TRUE, "none")

\* MultipassVMBackend.create_vm: o[1] is the launch's oracle, the rest are
\* those of the init commands
create_vm(prov, vm_name, config, o) ==
    LET launch == run_checked(prov, <<<<"launch", vm_name, <<>>>>>>, o, 1, <<>>)
    IN  IF launch.failed
        THEN Result(launch.prov, launch.calls, FALSE, "none")
        ELSE Result(launch.prov,
                    exec_all(launch.prov, vm_name, config.init_commands, Tail(o), 1,
                             launch.calls),
                    TRUE, "none")

\* MultipassVMBackend.delete_vm: delete, then purge
delete_vm(prov, vm_name, o) ==
    LET r == run_checked(prov, <<<<"delete", vm_name, <<>>>>, <<"purge", vm_name, <<>>>>>>,
                         o, 1, <<>>)
    IN  Result(r.prov, r.calls, ~r.failed, "none")

\* mutant of snapshot: a failed snapshot step is compensated by a start
snapshot_with_rollback(prov, node_id, snapshot_name, o) ==
    LET r == run_checked(prov, <<<<"stop", node_id, <<>>>>,
                                 <<"snapshot", node_id, snapshot_name>>,
                                 <<"start", node_id, <<>>>>>>, o, 1, <<>>)
        back == run_checked(r.prov, <<<<"start", node_id, <<>>>>>>, <<"ok">>, 1, r.calls)
    IN  IF r.failed /\ Len(r.calls) = 2
        THEN Result(back.prov, back.calls, FALSE, "none")
        ELSE Result(r.prov, r.calls, ~r.failed, "none")

\* MultipassVMBackend.snapshot: stop, snapshot, start
snapshot(prov, node_id, snapshot_name, o) ==
    LET r == run_checked(prov, <<<<"stop", node_id, <<>>>>,
                                 <<"snapshot", node_id, snapshot_name>>,
                                 <<"start", node_id, <<>>>>>>, o, 1, <<>>)
    IN  Result(r.prov, r.calls, ~r.failed, "none")

\* MultipassVMBackend.restore: stop, restore, start
restore(prov, node_id, snapshot_name, o) ==
    LET r == run_checked(prov, <<<<"stop", node_id, <<>>>>,
                                 <<"restore", node_id, snapshot_name>>,
                                 <<"start", node_id, <<>>>>>>, o, 1, <<>>)
    IN  Result(r.prov, r.calls, ~r.failed, "none")

\* mutant of stop_vm: a stop that failed is tried once more
stop_vm_retry(prov, node_id, o) ==
    LET r == run_checked(prov, <<<<"stop", node_id, <<>>>>>>, o, 1, <<>>)
        again == run_checked(prov, <<<<"stop", node_id, <<>>>>>>, o, 1, r.calls)
    IN  IF r.failed THEN Result(again.prov, again.calls, ~again.failed, "none")
        ELSE Result(r.prov, r.calls, TRUE, "none")

\* MultipassVMBackend.stop_vm
stop_vm(prov, node_id, o) ==
    LET r == run_checked(prov, <<<<"stop", node_id, <<>>>>>>, o, 1, <<>>)
    IN  Result(r.prov, r.calls, ~r.failed, "none")

\* MultipassVMBackend.start_vm
start_vm(prov, node_id, o) ==
    LET r == run_checked(prov, <<<<"start", node_id, <<>>>>>>, o, 1, <<>>)
    IN  Result(r.prov, r.calls, ~r.failed, "none")

\* Python's "a in b" on strings
IsSubstring(a, b) ==
    \E n \in 0..(Len(b) - Len(a)) : SubSeq(b, n + 1, n + Len(a)) = a

\* the names "multipass list" prints: every instance not purged
Listed(prov) == {n \in DOMAIN prov : prov[n].state # "absent"}

\* MultipassVMBackend.is_vm_exists: vm_name in the output of "multipass list"
is_vm_exists(prov, vm_name, o) ==
    LET r == run_checked(prov, <<<<"list", vm_name, <<>>>>>>, o, 1, <<>>)
    IN  Result(prov, r.calls,
               ~r.failed /\ \E n \in Listed(prov) : IsSubstring(vm_name, n),
               "none")

(***************************************************************************)
(* The backend driven operation by operation.                              *)
(***************************************************************************)
\* VMConfig of the backend's VMs: a has two init commands, b has none
I1 == <<"i", "1">>
I2 == <<"i", "2">>
BackendConfig ==
    (S_a :> [init_commands |-> <<I1, I2>>]) @@ (S_b :> [init_commands |-> <<>>])

CliOutcomes == {"ok", "nonzero"}
Oracles(first, rest, n) ==
    {<<f>> \o t : f \in first, t \in [1..n -> rest]}

NoOp == [op |-> "none", vm |-> <<>>, ret |-> FALSE, raised |-> "none"]

\* what a remote-device operation was called with and met: the addresses
\* "multipass info" reported, whether the local path is a directory, what
\* the probe of the remote path printed, the recursive flag passed, and
\* the way the command ended
Args(ips, isdir, probe, recursive, exec) ==
    [ips |-> ips, isdir |-> isdir, probe |-> probe, recursive |-> recursive, exec |-> exec]
NoArgs == Args(<<>>, FALSE, "", FALSE, "ok")

BeInit ==
    /\ multipass = NoInstances
    /\ calls = <<>>
    /\ be_last = NoOp
    /\ be_prev = NoOp
    /\ be_args = NoArgs

BeIdle == BeInit

\* operation op on vm has ended with result r
Returned(op, vm, r) ==
    /\ multipass' = r.prov
    /\ calls' = r.calls
    /\ be_last' = [op |-> op, vm |-> vm, ret |-> r.ret, raised |-> r.raised]
    /\ be_prev' = be_last
    /\ be_args' = NoArgs
    /\ UNCHANGED <<resolveVars, mgrVars, fsVars, wsVars, appVars>>

BeCreateVm ==
    \E vm \in VMNames :
        \E o \in Oracles(CliOutcomes, ExecOutcomes, Len(BackendConfig[vm].init_commands)) :
            Returned("create_vm", vm, create_vm(multipass, vm, BackendConfig[vm], o))

BeDeleteVm ==
    \E vm \in VMNames, o \in [1..2 -> CliOutcomes] :
        Returned("delete_vm", vm, delete_vm(multipass, vm, o))

BeSnapshot ==
    \E vm \in VMNames, sn \in SnapshotNames, o \in [1..3 -> CliOutcomes] :
        Returned("snapshot", vm, snapshot(multipass, vm, sn, o))

BeRestore ==
    \E vm \in VMNames, sn \in SnapshotNames, o \in [1..3 -> CliOutcomes] :
        Returned("restore", vm, restore(multipass, vm, sn, o))

BeStopVm ==
    \E vm \in VMNames, o \in [1..1 -> CliOutcomes] :
        Returned("stop_vm", vm, stop_vm(multipass, vm, o))

BeStartVm ==
    \E vm \in VMNames, o \in [1..1 -> CliOutcomes] :
        Returned("start_vm", vm, start_vm(multipass, vm, o))

BeIsVmExists ==
    \E vm \in VMNames, o \in [1..1 -> CliOutcomes] :
        Returned("is_vm_exists", vm, is_vm_exists(multipass, vm, o))

(***************************************************************************)
(* VMRemoteDevice and the address lookup of the backend.                   *)
(***************************************************************************)
\* what "multipass info" can report as the IPv4 field of a running VM
IpReports == {<<IP_10>>, <<IP_172, IP_192>>, <<IP_172>>, <<>>}
InfoOracles ==
    {[exit |-> "nonzero", ips |-> <<>>]} \cup {[exit |-> "ok", ips |-> r] : r \in IpReports}

\* MultipassVMBackend.get_vm_ip: a non-zero exit re-raises
\* CalledProcessError, an output without addresses raises RuntimeError.
\* "multipass info" exits 0 for an instance the provider holds, and lists
\* addresses only while it runs.
get_vm_ip(prov, vm_name, o) ==
    LET e == IF o.exit = "ok" /\ prov[vm_name].state # "absent" THEN "ok" ELSE "nonzero"
        ips == IF prov[vm_name].state = "running" THEN o.ips ELSE <<>>
        c == <<Call("info", vm_name, <<>>, e)>>
    IN  IF e # "ok" THEN Result(prov, c, <<>>, "CalledProcessError")
        ELSE IF ips = <<>> THEN Result(prov, c, <<>>, "RuntimeError")
        ELSE Result(prov, c, ips, "none")

\* str.startswith
StartsWith(str, prefix) ==
    Len(str) >= Len(prefix) /\ SubSeq(str, 1, Len(prefix)) = prefix

IsPrivate(ip) == StartsWith(ip, <<"1", "0", ".">>) \/ StartsWith(ip, <<"1", "9", "2", ".">>)

\* VMRemoteDevice._resolve_ip on the addresses get_vm_ip returned: the first
\* address in 10. or 192.; without one the code reads ips.length, which a
\* Python list does not have, and AttributeError is raised
resolve_ip(ips) ==
    IF \E n \in 1..Len(ips) : IsPrivate(ips[n])
    THEN [ret |-> ips[CHOOSE n \in 1..Len(ips) :
                         IsPrivate(ips[n]) /\ \A q \in 1..(n - 1) : ~IsPrivate(ips[q])],
          raised |-> "none"]
    ELSE [ret |-> <<>>, raised |-> "AttributeError"]

\* mutant of get_device_info: the device info holds the address only
get_device_info_ip_only(prov, device_id, o) ==
    LET g == get_vm_ip(prov, device_id, o)
        r == resolve_ip(g.ret)
    IN  IF g.raised # "none" THEN Result(prov, g.calls, <<>>, g.raised)
        ELSE IF r.raised # "none" THEN Result(prov, g.calls, <<>>, r.raised)
        ELSE Result(prov, g.calls, (S_ip :> r.ret), "none")

\* VMRemoteDevice.get_device_info
get_device_info(prov, device_id, o) ==
    LET g == get_vm_ip(prov, device_id, o)
        r == resolve_ip(g.ret)
    IN  IF g.raised # "none" THEN Result(prov, g.calls, <<>>, g.raised)
        ELSE IF r.raised # "none" THEN Result(prov, g.calls, <<>>, r.raised)
        ELSE Result(prov, g.calls, DeviceInfo(device_id, r.ret), "none")

(***************************************************************************)
(* Workspace: snapshot building, run, create_vms.                          *)
(***************************************************************************)
\* mutant of build_env_nodes: a node whose device info cannot be had is left
\* out of the snapshot
RECURSIVE build_env_nodes_lenient(_, _, _, _, _, _)
build_env_nodes_lenient(prov, ids, o, n, env, cs) ==
    IF n > Len(ids) THEN Result(prov, cs, env, "none")
    ELSE LET d == get_device_info(prov, ids[n], o[ids[n]])
         IN  IF d.raised # "none"
             THEN build_env_nodes_lenient(prov, ids, o, n + 1, env, cs \o d.calls)
             ELSE build_env_nodes_lenient(prov, ids, o, n + 1,
                                          (ids[n] :> d.ret) @@ env, cs \o d.calls)

\* Workspace.build_env_params from node n of ids on: env_params[node_id] =
\* device_info, node after node; the first get_device_info that raises ends
\* it.  o[node_id] is the oracle of that node's "multipass info".
RECURSIVE build_env_nodes(_, _, _, _, _, _)
build_env_nodes(prov, ids, o, n, env, cs) ==
    IF n > Len(ids) THEN Result(prov, cs, env, "none")
    ELSE LET d == get_device_info(prov, ids[n], o[ids[n]])
         IN  IF d.raised # "none" THEN Result(prov, cs \o d.calls, <<>>, d.raised)
             ELSE build_env_nodes(prov, ids, o, n + 1,
                                  (ids[n] :> d.ret) @@ env, cs \o d.calls)

\* mutant of build_env_params: only the first node's device info is looked up
build_env_params_first(prov, ids, parent_env_params, o) ==
    build_env_nodes(prov, SubSeq(ids, 1, 1), o, 1,
                    (S_system :> SystemEnv) @@ parent_env_params, <<>>)

\* Workspace.build_env_params(parent_env_params): the parent's entries, then
\* "system", then every node, a later entry replacing an earlier one
build_env_params(prov, ids, parent_env_params, o) ==
    build_env_nodes(prov, ids, o, 1, (S_system :> SystemEnv) @@ parent_env_params, <<>>)

LOCALHOST == <<"l", "o", "c", "a", "l", "h", "o", "s", "t">>

\* mutant of run_from: every command left is resolved before the next one is
\* executed
RECURSIVE run_from_resolved_up_front(_, _, _, _, _, _, _)
run_from_resolved_up_front(prov, device_id, cmds, env, o, n, cs) ==
    IF n > Len(cmds) THEN Result(prov, cs, <<>>, "none")
    ELSE IF \E k \in n..Len(cmds) : resolve_string(cmds[k], env).raised
    THEN Result(prov, cs, <<>>, "ValueError")
    ELSE IF device_id = LOCALHOST
    THEN run_from_resolved_up_front(prov, device_id, cmds, env, o, n + 1,
                                    Append(cs, Call("os.system", LOCALHOST,
                                                    resolve_string(cmds[n], env).value,
                                                    IF o[n] = "ok" THEN "ok" ELSE "nonzero")))
    ELSE run_from_resolved_up_front(prov, device_id, cmds, env, o, n + 1,
                                    cs \o exec_command(prov, device_id,
                                                       resolve_string(cmds[n], env).value,
                                                       o[n]).calls)

\* Workspace.run from command n on: each command is resolved, then handed
\* to os.system (device_id LOCALHOST, the code's None) or to the device's
\* run_command, whose result is dropped.  A resolution error ends the loop.
RECURSIVE run_from(_, _, _, _, _, _, _)
run_from(prov, device_id, cmds, env, o, n, cs) ==
    IF n > Len(cmds) THEN Result(prov, cs, <<>>, "none")
    ELSE LET new_command == resolve_string(cmds[n], env)
         IN  IF new_command.raised THEN Result(prov, cs, <<>>, "ValueError")
             ELSE IF device_id = LOCALHOST
                  THEN run_from(prov, device_id, cmds, env, o, n + 1,
                                Append(cs, Call("os.system", LOCALHOST,
                                                new_command.value,
                                                IF o[n] = "ok" THEN "ok" ELSE "nonzero")))
                  ELSE run_from(prov, device_id, cmds, env, o, n + 1,
                                cs \o exec_command(prov, device_id, new_command.value,
                                                   o[n]).calls)

\* Workspace.run(device_id, cmds, env_params); remote_devices holds the
\* devices of ids, any other key raises KeyError
Workspace_run(prov, ids, device_id, cmds, env, o) ==
    IF device_id # LOCALHOST /\ \A n \in 1..Len(ids) : ids[n] # device_id
    THEN Result(prov, <<>>, <<>>, "KeyError")
    ELSE run_from(prov, device_id, cmds, env, o, 1, <<>>)

(***************************************************************************)
(* Topologies: nodes.json as VMNodeList.load_from_file reads it.  Nothing  *)
(* relates instance_order to the node ids.                                 *)
(***************************************************************************)
CmdX == <<"x">>
CmdY == <<"y">>
CmdPingB == <<"p", " ">> \o Ref(S_b, S_ip)
CmdPingA == <<"p", " ">> \o Ref(S_a, S_ip)
CmdPingZ == <<"p", " ">> \o Ref(S_z, S_ip)

VMConfig(instance_commands, apps, directories) ==
    [init_commands |-> <<>>, instance_commands |-> instance_commands, apps |-> apps,
     directories |-> directories]

InstanceCommandsOfA == {<<CmdPingB>>, <<CmdX, CmdPingB>>, <<CmdPingZ, CmdX>>}
InstanceCommandsOfB == {<<CmdY>>, <<CmdPingA, CmdY>>, <<>>}

Topologies ==
    {[ids |-> ids, cfg |-> (S_a :> VMConfig(ca, <<>>, <<>>)) @@ (S_b :> VMConfig(cb, <<>>, <<>>))] :
        ids \in {<<S_a, S_b>>, <<S_b, S_a>>},
        ca \in InstanceCommandsOfA, cb \in InstanceCommandsOfB}

InstanceOrders ==
    {<<S_a, S_b>>, <<S_b, S_a>>, <<S_a>>, <<S_b>>, <<>>,
     <<S_z, S_b, S_a>>, <<S_a, S_a>>, <<S_b, S_a, S_b>>}

\* mutant of get_node_id_by_init_orders: the node ids in dictionary order
get_node_id_by_init_orders_keys == nodes.ids

\* VMNodeList.get_node_id_by_init_orders
get_node_id_by_init_orders == instance_order

\* VMNodeList.get_node: dict.get, None for an unknown id
HasNode(node_id) == \E n \in 1..Len(nodes.ids) : nodes.ids[n] = node_id

WsIdle ==
    /\ nodes = [ids |-> <<>>, cfg |-> <<>>]
    /\ instance_order = <<>>
    /\ ws_pc = "idle"
    /\ ws_i = 0
    /\ ws_k = 0
    /\ ws_j = 0
    /\ ws_env = <<>>
    /\ ws_mark = 0
    /\ ws_error = "none"

\* Workspace.load, then the call of create_vms
CreateVmsInit ==
    /\ nodes \in Topologies
    /\ instance_order \in InstanceOrders
    /\ ws_pc = "create"
    /\ ws_i = 1
    /\ ws_k = 0
    /\ ws_j = 0
    /\ ws_env = <<>>
    /\ ws_mark = 0
    /\ ws_error = "none"
    /\ multipass = NoInstances
    /\ calls = <<>>
    /\ be_last = NoOp
    /\ be_prev = NoOp
    /\ be_args = NoArgs

\* create_vms: vm_mgr.create_vm(node_id, node_config) for the next node of
\* nodes.items(); its boolean is dropped.  After the last node comes the
\* sleep, then the snapshot.
CreateVmsCreate ==
    /\ ws_pc = "create"
    /\ ws_i <= Len(nodes.ids)
    /\ \E o \in Oracles(CliOutcomes, ExecOutcomes,
                        Len(nodes.cfg[nodes.ids[ws_i]].init_commands)) :
          LET r == create_vm(multipass, nodes.ids[ws_i], nodes.cfg[nodes.ids[ws_i]], o)
          IN  /\ multipass' = r.prov
              /\ calls' = calls \o r.calls
    /\ ws_i' = ws_i + 1
    /\ ws_pc' = IF ws_i = Len(nodes.ids) THEN "build_env" ELSE "create"
    /\ UNCHANGED <<nodes, instance_order, ws_k, ws_j, ws_env, ws_mark, ws_error>>
    /\ UNCHANGED <<resolveVars, mgrVars, fsVars, appVars, be_last, be_prev, be_args>>

\* create_vms: env_params = self.build_env_params(), then
\* instance_order = self.nodes.get_node_id_by_init_orders()
CreateVmsBuildEnv ==
    /\ ws_pc = "build_env"
    /\ \E o \in [{nodes.ids[n] : n \in 1..Len(nodes.ids)} -> InfoOracles] :
          LET r == build_env_params(multipass, nodes.ids, <<>>, o)
          IN  /\ calls' = calls \o r.calls
              /\ ws_mark' = Len(calls) + Len(r.calls)
              /\ ws_env' = r.ret
              /\ ws_error' = r.raised
              /\ ws_pc' = IF r.raised = "none" THEN "instance" ELSE "raised"
    /\ ws_k' = 1
    /\ ws_j' = 1
    /\ UNCHANGED <<nodes, instance_order, ws_i, multipass>>
    /\ UNCHANGED <<resolveVars, mgrVars, fsVars, appVars, be_last, be_prev, be_args>>

\* the instance commands the loop body sees for entry k of the order:
\* none when get_node yields None
InstanceCommandsAt(k) ==
    IF HasNode(get_node_id_by_init_orders[k]) THEN nodes.cfg[get_node_id_by_init_orders[k]].instance_commands
    ELSE <<>>

\* create_vms: the entry of instance_order in hand is not a node ("continue")
\* or its commands are exhausted: on to the next entry
CreateVmsNextNode ==
    /\ ws_pc = "instance"
    /\ ws_k <= Len(get_node_id_by_init_orders)
    /\ ws_j > Len(InstanceCommandsAt(ws_k))
    /\ ws_k' = ws_k + 1
    /\ ws_j' = 1
    /\ UNCHANGED <<nodes, instance_order, ws_pc, ws_i, ws_env, ws_mark, ws_error>>
    /\ UNCHANGED <<resolveVars, mgrVars, fsVars, appVars, beVars>>

\* create_vms: self.run(node_id, [command], env_params) for the next
\* instance command of the entry in hand
CreateVmsRunCommand ==
    /\ ws_pc = "instance"
    /\ ws_k <= Len(get_node_id_by_init_orders)
    /\ ws_j <= Len(InstanceCommandsAt(ws_k))
    /\ \E o \in [1..1 -> ExecOutcomes] :
          LET r == Workspace_run(multipass, nodes.ids, get_node_id_by_init_orders[ws_k],
                                 <<InstanceCommandsAt(ws_k)[ws_j]>>, ws_env, o)
          IN  /\ calls' = calls \o r.calls
              /\ ws_error' = r.raised
              /\ ws_pc' = IF r.raised = "none" THEN "instance" ELSE "raised"
    /\ ws_j' = ws_j + 1
    /\ UNCHANGED <<nodes, instance_order, ws_i, ws_k, ws_env, ws_mark, multipass>>
    /\ UNCHANGED <<resolveVars, mgrVars, fsVars, appVars, be_last, be_prev, be_args>>

\* create_vms returns
CreateVmsReturn ==
    /\ ws_pc = "instance"
    /\ ws_k > Len(get_node_id_by_init_orders)
    /\ ws_pc' = "done"
    /\ UNCHANGED <<nodes, instance_order, ws_i, ws_k, ws_j, ws_env, ws_mark, ws_error>>
    /\ UNCHANGED <<resolveVars, mgrVars, fsVars, appVars, beVars>>

(***************************************************************************)
(* The app descriptors (AppList, AppConfig of app_list.py) and the per-app *)
(* operations of the workspace: execute_app_command, install, update.      *)
(***************************************************************************)
\* the code's None where a device id is expected, and where a list of app
\* names is expected
None == <<"None">>
NoApps == <<None>>

S_app == <<"a", "p", "p">>
S_db == <<"d", "b">>

\* AppConfig: the named directories and the named command lists of one app
AppConfig(directories, commands) == [directories |-> directories, commands |-> commands]

\* AppList.get_app(app_name) is None
AppList_get_app_is_none(app_name) == app_name \notin DOMAIN app_list.cfg

\* AppList.get_all_app_names
AppList_get_all_app_names == app_list.names

\* AppConfig.get_dir(dir_name), the text "None" standing for None
AppConfig_get_dir(app_config, dir_name) ==
    IF dir_name \in DOMAIN app_config.directories
    THEN app_config.directories[dir_name] ELSE None

\* AppConfig.get_command(cmd_name) is None
AppConfig_get_command_is_none(app_config, cmd_name) ==
    cmd_name \notin DOMAIN app_config.commands

\* VMNodeList.get_app_params(node_id, app_name) is None
get_app_params_is_none(node_id, app_name) ==
    ~HasNode(node_id) \/ app_name \notin DOMAIN nodes.cfg[node_id].apps

\* VMNodeList.have_app
have_app(node_id, app_name) ==
    HasNode(node_id) /\ app_name \in DOMAIN nodes.cfg[node_id].apps

\* two steps in sequence: what the first raises ends the operation, else the
\* second follows and its calls come after the first's
Then(first, second) ==
    IF first.raised # "none" THEN first
    ELSE Result(second.prov, first.calls \o second.calls, second.ret, second.raised)

\* execute_app_command from the environment snapshot e on: get_app,
\* get_command, then run on the host (the code's device id None) or on the
\* device
execute_app_command_with(prov, o, device_id, app_name, cmd_name, run_in_host, e) ==
    IF e.raised # "none" THEN Result(prov, e.calls, <<>>, e.raised)
    ELSE IF AppList_get_app_is_none(app_name)
    THEN Result(prov, e.calls, <<>>, "ValueError")
    ELSE IF AppConfig_get_command_is_none(app_list.cfg[app_name], cmd_name)
    THEN Result(prov, e.calls, <<>>, "ValueError")
    ELSE Then(Result(prov, e.calls, <<>>, "none"),
              Workspace_run(prov, nodes.ids,
                            IF run_in_host THEN LOCALHOST ELSE device_id,
                            app_list.cfg[app_name].commands[cmd_name], e.ret, o.exec))

\* Workspace.execute_app_command.  o.info[node] is the oracle of that node's
\* "multipass info", o.exec[n] the way the n-th command of a list ends.
execute_app_command(prov, o, device_id, app_name, cmd_name, run_in_host) ==
    IF ~HasNode(device_id) THEN Result(prov, <<>>, <<>>, "ValueError")
    ELSE IF get_app_params_is_none(device_id, app_name)
    THEN Result(prov, <<>>, <<>>, "ValueError")
    ELSE execute_app_command_with(
             prov, o, device_id, app_name, cmd_name, run_in_host,
             build_env_params(prov, nodes.ids,
                              (app_name :> nodes.cfg[device_id].apps[app_name]), o.info))

\* MultipassVMBackend.push_file: "multipass transfer [-r] local vm:remote",
\* false on a non-zero exit
push_file(prov, vm_name, local_path, remote_path, recursive, o) ==
    LET arg == (IF recursive THEN <<"-", "r", " ">> ELSE <<>>) \o local_path
               \o <<" ">> \o vm_name \o <<":">> \o remote_path
        e == Exit(prov, "transfer", vm_name, arg, o)
    IN  Result(prov, <<Call("transfer", vm_name, arg, e)>>, e = "ok", "none")

\* MultipassVMBackend.push_dir: mkdir -p on the VM, its result dropped, then
\* the recursive transfer of "<local_dir>/."
push_dir(prov, vm_name, local_dir, remote_dir, o) ==
    Then(exec_command(prov, vm_name,
                      <<"m", "k", "d", "i", "r", " ", "-", "p", " ">> \o remote_dir,
                      o.exec[1]),
         push_file(prov, vm_name, local_dir \o <<"/", ".">>, remote_dir, TRUE, o.transfer))

\* mutant of raise_unless_success: the answer of the backend is dropped
raise_never(s) == Result(s.prov, s.calls, <<>>, "none")

\* "if not success: raise Exception(...)"
raise_unless_success(s) ==
    Result(s.prov, s.calls, <<>>, IF s.ret THEN "none" ELSE "Exception")

\* mutant of push: the recursive flag, not the local path, selects push_dir
push_by_flag(prov, o, device_id, local_path, remote_path, recursive) ==
    raise_unless_success(
        IF recursive THEN push_dir(prov, device_id, local_path, remote_path, o)
        ELSE push_file(prov, device_id, local_path, remote_path, recursive, o.transfer))

\* VMRemoteDevice.push(local_path, remote_path, recursive): o.isdir is what
\* os.path.isdir(local_path) answers; a false from the backend is raised
push(prov, o, device_id, local_path, remote_path, recursive) ==
    raise_unless_success(
        IF o.isdir THEN push_dir(prov, device_id, local_path, remote_path, o)
        ELSE push_file(prov, device_id, local_path, remote_path, recursive, o.transfer))

\* print(f"App ... SKIP"): a diagnostic line about app_name on device_id
print_skip(prov, device_id, app_name) ==
    Result(prov, <<Call("print", device_id, app_name, "ok")>>, <<>>, "none")

\* mutant of install_from: no app is skipped, and the push comes before the
\* build on the host
RECURSIVE install_from_push_first(_, _, _, _, _)
install_from_push_first(prov, o, device_id, apps, n) ==
    IF n > Len(apps) THEN Result(prov, <<>>, <<>>, "none")
    ELSE IF AppList_get_app_is_none(apps[n]) THEN Result(prov, <<>>, <<>>, "ValueError")
    ELSE Then(Then(Then(push(prov, o, device_id,
                             AppConfig_get_dir(app_list.cfg[apps[n]], "source"),
                             AppConfig_get_dir(app_list.cfg[apps[n]], "target"), FALSE),
                        execute_app_command(prov, o, device_id, apps[n], "build_all", TRUE)),
                   execute_app_command(prov, o, device_id, apps[n], "install", FALSE)),
              install_from_push_first(prov, o, device_id, apps, n + 1))

\* the loop of Workspace.install from app n of apps on
RECURSIVE install_from(_, _, _, _, _)
install_from(prov, o, device_id, apps, n) ==
    IF n > Len(apps) THEN Result(prov, <<>>, <<>>, "none")
    ELSE IF ~have_app(device_id, apps[n])
    THEN Then(print_skip(prov, device_id, apps[n]),
              install_from(prov, o, device_id, apps, n + 1))
    ELSE IF AppList_get_app_is_none(apps[n]) THEN Result(prov, <<>>, <<>>, "ValueError")
    ELSE IF AppConfig_get_dir(app_list.cfg[apps[n]], "source") = None
    THEN Result(prov, <<>>, <<>>, "TypeError")
    ELSE Then(Then(Then(execute_app_command(prov, o, device_id, apps[n], "build_all", TRUE),
                        push(prov, o, device_id,
                             AppConfig_get_dir(app_list.cfg[apps[n]], "source"),
                             AppConfig_get_dir(app_list.cfg[apps[n]], "target"), FALSE)),
                   execute_app_command(prov, o, device_id, apps[n], "install", FALSE)),
              install_from(prov, o, device_id, apps, n + 1))

\* Workspace.install(device_id, app_list): self.remote_devices[device_id]
\* raises KeyError for a device the workspace does not hold
Workspace_install(prov, o, device_id, apps) ==
    IF ~HasNode(device_id) THEN Result(prov, <<>>, <<>>, "KeyError")
    ELSE install_from(prov, o, device_id,
                      IF apps = NoApps THEN AppList_get_all_app_names ELSE apps, 1)

\* mutant of update_from: an app without source_bin ends the loop
RECURSIVE update_from_return_at_skip(_, _, _, _, _)
update_from_return_at_skip(prov, o, device_id, apps, n) ==
    IF n > Len(apps) THEN Result(prov, <<>>, <<>>, "none")
    ELSE IF AppList_get_app_is_none(apps[n]) THEN Result(prov, <<>>, <<>>, "ValueError")
    ELSE IF AppConfig_get_dir(app_list.cfg[apps[n]], "source_bin") = None
    THEN print_skip(prov, device_id, apps[n])
    ELSE Then(Then(Then(execute_app_command(prov, o, device_id, apps[n], "build", TRUE),
                        push(prov, o, device_id,
                             AppConfig_get_dir(app_list.cfg[apps[n]], "source_bin"),
                             AppConfig_get_dir(app_list.cfg[apps[n]], "target_bin"), FALSE)),
                   execute_app_command(prov, o, device_id, apps[n], "update", FALSE)),
              update_from_return_at_skip(prov, o, device_id, apps, n + 1))

\* the loop of Workspace.update from app n of apps on
RECURSIVE update_from(_, _, _, _, _)
update_from(prov, o, device_id, apps, n) ==
    IF n > Len(apps) THEN Result(prov, <<>>, <<>>, "none")
    ELSE IF AppList_get_app_is_none(apps[n]) THEN Result(prov, <<>>, <<>>, "ValueError")
    ELSE IF AppConfig_get_dir(app_list.cfg[apps[n]], "source_bin") = None
    THEN Then(print_skip(prov, device_id, apps[n]),
              update_from(prov, o, device_id, apps, n + 1))
    ELSE Then(Then(Then(execute_app_command(prov, o, device_id, apps[n], "build", TRUE),
                        push(prov, o, device_id,
                             AppConfig_get_dir(app_list.cfg[apps[n]], "source_bin"),
                             AppConfig_get_dir(app_list.cfg[apps[n]], "target_bin"), FALSE)),
                   execute_app_command(prov, o, device_id, apps[n], "update", FALSE)),
              update_from(prov, o, device_id, apps, n + 1))

\* Workspace.update(device_id, app_list)
Workspace_update(prov, o, device_id, apps) ==
    IF ~HasNode(device_id) THEN Result(prov, <<>>, <<>>, "KeyError")
    ELSE update_from(prov, o, device_id,
                     IF apps = NoApps THEN AppList_get_all_app_names ELSE apps, 1)

(***************************************************************************)
(* The workspaces of the handler runs: two nodes a and b, a declaring the  *)
(* apps app and db, b declaring app only; and the app descriptors loaded.  *)
(***************************************************************************)
CmdMake == <<"m">>
CmdInstallX == <<"i", " ">> \o Ref(S_app, S_x)
P_src == <<"/", "s">>
P_dst == <<"/", "t">>
P_bin == <<"/", "s", "b">>
P_dbin == <<"/", "t", "b">>

AppNodes ==
    [ids |-> <<S_a, S_b>>,
     cfg |-> (S_a :> VMConfig(<<>>, (S_app :> (S_x :> <<"7">>)) @@ (S_db :> <<>>), <<>>))
             @@ (S_b :> VMConfig(<<>>, (S_app :> (S_x :> <<"9">>)), <<>>))]

SourceDirs == ("source" :> P_src) @@ ("target" :> P_dst)
BinaryDirs == ("source_bin" :> P_bin) @@ ("target_bin" :> P_dbin)

DbConfig ==
    AppConfig(SourceDirs,
              ("build_all" :> <<CmdMake>>) @@ ("install" :> <<CmdY>>)
              @@ ("build" :> <<CmdMake>>) @@ ("update" :> <<CmdY>>))

AppLists ==
    {[names |-> <<S_app, S_db>>,
      cfg |-> (S_app :> AppConfig(SourceDirs @@ BinaryDirs,
                                  ("build_all" :> <<CmdMake>>)
                                  @@ ("install" :> <<CmdInstallX, CmdPingB>>)
                                  @@ ("build" :> <<CmdMake>>)
                                  @@ ("update" :> <<CmdX>>)
                                  @@ ("start" :> <<CmdX, CmdY>>)))
              @@ (S_db :> DbConfig)],
     [names |-> <<S_db, S_app>>,
      cfg |-> (S_app :> AppConfig(SourceDirs @@ BinaryDirs,
                                  ("build_all" :> <<CmdMake>>)
                                  @@ ("install" :> <<CmdX, CmdPingZ, CmdY>>)
                                  @@ ("build" :> <<CmdPingZ>>)
                                  @@ ("update" :> <<CmdX>>)
                                  @@ ("start" :> <<CmdX>>)))
              @@ (S_db :> DbConfig)],
     [names |-> <<S_app>>,
      cfg |-> (S_app :> AppConfig(SourceDirs @@ BinaryDirs,
                                  ("build_all" :> <<CmdMake>>)
                                  @@ ("build" :> <<CmdMake>>)))],
     [names |-> <<S_db>>,
      cfg |-> (S_db :> AppConfig(SourceDirs @@ BinaryDirs,
                                 ("build_all" :> <<CmdMake>>) @@ ("install" :> <<CmdY>>)
                                 @@ ("build" :> <<CmdMake>>) @@ ("update" :> <<CmdY>>)))]}

\* args of the install, update and start parsers (device_id, --apps) and of
\* the exec parser (app_cmd split at its first ".", --device), and the
\* arguments of a call of Workspace.execute_app_command itself
HandlerOps ==
    {[handler |-> h, device_id |-> d, apps |-> ap, app_name |-> S_app, cmd_name |-> "install"] :
        h \in {"install", "update", "start"},
        d \in {None, S_a, S_z},
        ap \in {NoApps, <<S_db, S_app>>, <<S_x>>}}
    \cup
    {[handler |-> "exec", device_id |-> d, apps |-> NoApps, app_name |-> n, cmd_name |-> c] :
        d \in {None, S_a, S_z},
        n \in {S_app, S_db, S_x},
        c \in {"install", "start", "remove"}}
    \cup
    {[handler |-> "execute_app_command", device_id |-> d, apps |-> NoApps,
      app_name |-> n, cmd_name |-> c] :
        d \in {S_b, S_z},
        n \in {S_app, S_db, S_x},
        c \in {"install", "remove"}}

\* the command lists of the app descriptors loaded, and the longest one
CommandLists ==
    UNION {{app_list.cfg[n].commands[c] : c \in DOMAIN app_list.cfg[n].commands} :
              n \in DOMAIN app_list.cfg}
LongestCommandList ==
    CHOOSE m \in {Len(l) : l \in CommandLists} : \A l \in CommandLists : Len(l) <= m

\* what the provider and the local file system can answer during the
\* processing of one device
HandlerInfoOracles ==
    {[exit |-> "nonzero", ips |-> <<>>], [exit |-> "ok", ips |-> <<IP_10>>],
     [exit |-> "ok", ips |-> <<IP_172>>]}
StepOracles ==
    [info : [VMNames -> HandlerInfoOracles],
     exec : [1..LongestCommandList -> ExecOutcomes],
     transfer : CliOutcomes,
     isdir : BOOLEAN]

AppIdle ==
    /\ app_list = [names |-> <<>>, cfg |-> <<>>]
    /\ ws_op = [handler |-> "none", device_id |-> None, apps |-> NoApps,
                app_name |-> <<>>, cmd_name |-> "none"]
    /\ processed = <<>>

\* build_workspace (Workspace.load) against VMs that run or are stopped,
\* then the dispatch to the handler of the parsed arguments
HandlerInit ==
    /\ nodes = AppNodes
    /\ instance_order = <<S_a, S_b>>
    /\ app_list \in AppLists
    /\ ws_op \in HandlerOps
    /\ processed = <<>>
    /\ multipass \in {[n \in VMNames |-> Instance(st[n], {})] :
                        st \in [VMNames -> {"running", "stopped"}]}
    /\ calls = <<>>
    /\ be_last = NoOp
    /\ be_prev = NoOp
    /\ be_args = NoArgs
    /\ ws_pc = "fanout"
    /\ ws_i = 1
    /\ ws_k = 0
    /\ ws_j = 0
    /\ ws_env = <<>>
    /\ ws_mark = 0
    /\ ws_error = "none"

\* the devices handle_install, handle_update and handle_start hand to the
\* workspace: workspace.remote_devices.keys() when no device is named
Targets == IF ws_op.device_id = None THEN nodes.ids ELSE <<ws_op.device_id>>

\* the target_devices of handle_exec_app: a named device the workspace does
\* not hold is reported and the handler returns
ExecTargets ==
    IF ws_op.device_id = None THEN nodes.ids
    ELSE IF HasNode(ws_op.device_id) THEN <<ws_op.device_id>>
    ELSE <<>>

HandlerTargets == IF ws_op.handler = "exec" THEN ExecTargets ELSE Targets

Processed(device_id, raised) == [device_id |-> device_id, raised |-> raised]

\* the workspace call for device_id has ended as r and nothing catches what
\* it raised
Propagated(device_id, r) ==
    /\ calls' = r.calls
    /\ processed' = Append(processed, Processed(device_id, r.raised))
    /\ ws_error' = r.raised
    /\ ws_pc' = IF r.raised = "none" THEN "fanout" ELSE "raised"

\* the workspace call for device_id has ended as r inside try/except: what
\* it raised is printed and the loop goes on
Caught(device_id, r) ==
    /\ calls' = r.calls
    /\ processed' = Append(processed, Processed(device_id, r.raised))
    /\ UNCHANGED <<ws_pc, ws_error>>

\* handle_install: workspace.install(device_id, args.apps) for the next
\* device; nothing catches what it raises
HandleInstall ==
    /\ ws_pc = "fanout"
    /\ ws_op.handler = "install"
    /\ ws_i <= Len(Targets)
    /\ \E o \in StepOracles :
          Propagated(Targets[ws_i],
                     Workspace_install(multipass, o, Targets[ws_i], ws_op.apps))
    /\ ws_i' = ws_i + 1
    /\ UNCHANGED <<nodes, instance_order, ws_k, ws_j, ws_env, ws_mark>>
    /\ UNCHANGED <<resolveVars, mgrVars, fsVars, app_list, ws_op, multipass, be_last, be_prev, be_args>>

\* handle_update: workspace.update(device_id, args.apps) for the next device;
\* nothing catches what it raises
HandleUpdate ==
    /\ ws_pc = "fanout"
    /\ ws_op.handler = "update"
    /\ ws_i <= Len(Targets)
    /\ \E o \in StepOracles :
          Propagated(Targets[ws_i],
                     Workspace_update(multipass, o, Targets[ws_i], ws_op.apps))
    /\ ws_i' = ws_i + 1
    /\ UNCHANGED <<nodes, instance_order, ws_k, ws_j, ws_env, ws_mark>>
    /\ UNCHANGED <<resolveVars, mgrVars, fsVars, app_list, ws_op, multipass, be_last, be_prev, be_args>>

\* handle_start: workspace.start(device_id, args.apps); Workspace defines no
\* start, so the attribute lookup raises AttributeError at the first device
HandleStart ==
    /\ ws_pc = "fanout"
    /\ ws_op.handler = "start"
    /\ ws_i <= Len(Targets)
    /\ Propagated(Targets[ws_i], Result(multipass, <<>>, <<>>, "AttributeError"))
    /\ ws_i' = ws_i + 1
    /\ UNCHANGED <<nodes, instance_order, ws_k, ws_j, ws_env, ws_mark>>
    /\ UNCHANGED <<resolveVars, mgrVars, fsVars, app_list, ws_op, multipass, be_last, be_prev, be_args>>

\* handle_exec_app: execute_app_command for the next target device inside
\* try/except: whatever it raises is printed and the loop continues
HandleExecApp ==
    /\ ws_pc = "fanout"
    /\ ws_op.handler = "exec"
    /\ ws_i <= Len(ExecTargets)
    /\ \E o \in StepOracles :
          Caught(ExecTargets[ws_i],
                 execute_app_command(multipass, o, ExecTargets[ws_i],
                                     ws_op.app_name, ws_op.cmd_name, FALSE))
    /\ ws_i' = ws_i + 1
    /\ UNCHANGED <<nodes, instance_order, ws_k, ws_j, ws_env, ws_mark>>
    /\ UNCHANGED <<resolveVars, mgrVars, fsVars, app_list, ws_op, multipass, be_last, be_prev, be_args>>

\* Workspace.execute_app_command(device_id, app_name, cmd_name, run_in_host)
\* called with the arguments as they are; nothing catches what it raises
CallExecuteAppCommand ==
    /\ ws_pc = "fanout"
    /\ ws_op.handler = "execute_app_command"
    /\ ws_i <= Len(Targets)
    /\ \E o \in StepOracles, run_in_host \in BOOLEAN :
          Propagated(Targets[ws_i],
                     execute_app_command(multipass, o, Targets[ws_i],
                                         ws_op.app_name, ws_op.cmd_name, run_in_host))
    /\ ws_i' = ws_i + 1
    /\ UNCHANGED <<nodes, instance_order, ws_k, ws_j, ws_env, ws_mark>>
    /\ UNCHANGED <<resolveVars, mgrVars, fsVars, app_list, ws_op, multipass, be_last, be_prev, be_args>>

\* the handler returns to main after its last target device
HandlerReturn ==
    /\ ws_pc = "fanout"
    /\ ws_i > Len(HandlerTargets)
    /\ ws_pc' = "done"
    /\ UNCHANGED <<nodes, instance_order, ws_i, ws_k, ws_j, ws_env, ws_mark, ws_error>>
    /\ UNCHANGED <<resolveVars, mgrVars, fsVars, appVars, beVars>>

(***************************************************************************)
(* The transfers from the VM, the command execution of the remote devices  *)
(* and the remote-device operations as steps of their own.                 *)
(***************************************************************************)
P_logs == <<"/", "l">>
P_local == <<"/", "c">>

\* MultipassVMBackend.pull_file: "multipass transfer [-r] vm:remote local",
\* false on a non-zero exit
pull_file(prov, vm_name, remote_path, local_path, recursive, o) ==
    LET arg == (IF recursive THEN <<"-", "r", " ">> ELSE <<>>) \o vm_name \o <<":">>
               \o remote_path \o <<" ">> \o local_path
        e == Exit(prov, "transfer", vm_name, arg, o)
    IN  Result(prov, <<Call("transfer", vm_name, arg, e)>>, e = "ok", "none")

\* MultipassVMBackend.pull_dir: os.makedirs(local_dir, exist_ok=True), whose
\* exception is caught and answered with false, then the recursive transfer
pull_dir(prov, vm_name, remote_dir, local_dir, o) ==
    IF ~o.makedirs THEN Result(prov, <<>>, FALSE, "none")
    ELSE pull_file(prov, vm_name, remote_dir, local_dir, TRUE, o.transfer)

\* mutant of remote_is_dir: the exit of the probe is not looked at
remote_is_dir_unprobed(prov, vm_name, remote_path, o) ==
    Result(prov, exec_command(prov, vm_name, <<"i", "f", " ">> \o remote_path, o.exec[1]).calls,
           o.probe = "DIR", "none")

\* VMRemoteDevice._remote_is_dir: the probe is run with exec_command and the
\* path is a directory when its stdout holds "DIR"; o.probe is what the
\* probe prints when it runs
remote_is_dir(prov, vm_name, remote_path, o) ==
    Result(prov, exec_command(prov, vm_name, <<"i", "f", " ">> \o remote_path, o.exec[1]).calls,
           ExecExit(prov, vm_name, o.exec[1]) = "ok" /\ o.probe = "DIR", "none")

\* pull after the probe has answered is_dir
pull_as(prov, o, device_id, remote_path, local_path, recursive, is_dir) ==
    Then(is_dir,
         raise_unless_success(
             IF is_dir.ret THEN pull_dir(prov, device_id, remote_path, local_path, o)
             ELSE pull_file(prov, device_id, remote_path, local_path, recursive,
                            o.transfer)))

\* VMRemoteDevice.pull(remote_path, local_path, recursive)
pull(prov, o, device_id, remote_path, local_path, recursive) ==
    pull_as(prov, o, device_id, remote_path, local_path, recursive,
            remote_is_dir(prov, device_id, remote_path, o))

\* VMRemoteDevice.run_command
VMRemoteDevice_run_command(prov, device_id, command, o) ==
    exec_command(prov, device_id, command, o)

\* RemoteDevice.run_command: exec_command of the backend for a device with a
\* vm configuration.  Else the ssh command line is built, before the try
\* block, from the name id_rsa_path, which the module neither defines nor
\* imports: NameError is raised and ssh is never started
RemoteDevice_run_command(prov, is_vm, device_id, command, o) ==
    IF is_vm THEN exec_command(prov, device_id, command, o)
    ELSE Result(prov, <<>>, <<>>, "NameError")

\* what the provider and the file systems can answer to one remote-device
\* operation
DeviceOracles ==
    [exec : [1..1 -> ExecOutcomes], transfer : CliOutcomes, isdir : BOOLEAN,
     probe : {"DIR", "FILE"}, makedirs : BOOLEAN]

PushOracles == [exec : [1..1 -> ExecOutcomes], transfer : CliOutcomes, isdir : BOOLEAN]

\* operation op on vm, called with and meeting args, has ended with result
\* r; the operation before it is not remembered here
ReturnedWith(op, vm, r, args) ==
    /\ multipass' = r.prov
    /\ calls' = r.calls
    /\ be_last' = [op |-> op, vm |-> vm, ret |-> r.ret, raised |-> r.raised]
    /\ be_args' = args
    /\ UNCHANGED <<be_prev, resolveVars, mgrVars, fsVars, wsVars, appVars>>

\* the operations of the VM life cycle, called one after the other on the
\* one backend the remote devices share
OpCreateVm ==
    \E vm \in VMNames :
        \E o \in Oracles(CliOutcomes, ExecOutcomes, Len(BackendConfig[vm].init_commands)) :
            ReturnedWith("create_vm", vm, create_vm(multipass, vm, BackendConfig[vm], o),
                         NoArgs)

OpDeleteVm ==
    \E vm \in VMNames, o \in [1..2 -> CliOutcomes] :
        ReturnedWith("delete_vm", vm, delete_vm(multipass, vm, o), NoArgs)

OpSnapshot ==
    \E vm \in VMNames, sn \in SnapshotNames, o \in [1..3 -> CliOutcomes] :
        ReturnedWith("snapshot", vm, snapshot(multipass, vm, sn, o), NoArgs)

OpRestore ==
    \E vm \in VMNames, sn \in SnapshotNames, o \in [1..3 -> CliOutcomes] :
        ReturnedWith("restore", vm, restore(multipass, vm, sn, o), NoArgs)

OpStopVm ==
    \E vm \in VMNames, o \in [1..1 -> CliOutcomes] :
        ReturnedWith("stop_vm", vm, stop_vm(multipass, vm, o), NoArgs)

OpStartVm ==
    \E vm \in VMNames, o \in [1..1 -> CliOutcomes] :
        ReturnedWith("start_vm", vm, start_vm(multipass, vm, o), NoArgs)

DevGetDeviceInfo ==
    \E vm \in VMNames, o \in InfoOracles :
        ReturnedWith("get_device_info", vm, get_device_info(multipass, vm, o),
                     Args(get_vm_ip(multipass, vm, o).ret, FALSE, "", FALSE, "ok"))

DevPush ==
    \E vm \in VMNames, recursive \in BOOLEAN, o \in PushOracles :
        ReturnedWith("push", vm, push(multipass, o, vm, P_local, P_logs, recursive),
                     Args(<<>>, o.isdir, "", recursive, o.exec[1]))

DevPull ==
    \E vm \in VMNames, recursive \in BOOLEAN, o \in DeviceOracles :
        ReturnedWith("pull", vm, pull(multipass, o, vm, P_logs, P_local, recursive),
                     Args(<<>>, FALSE, o.probe, recursive, o.exec[1]))

DevRunCommand ==
    \E vm \in VMNames, o \in ExecOutcomes :
        \/ ReturnedWith("VMRemoteDevice.run_command", vm,
                        VMRemoteDevice_run_command(multipass, vm, CmdX, o),
                        Args(<<>>, FALSE, "", FALSE, o))
        \/ \E is_vm \in BOOLEAN :
              ReturnedWith(IF is_vm THEN "RemoteDevice.run_command"
                           ELSE "RemoteDevice.run_command (ssh)", vm,
                           RemoteDevice_run_command(multipass, is_vm, vm, CmdX, o),
                           Args(<<>>, FALSE, "", FALSE, o))

\* the loops of Workspace.clean_vms, stop_vms, start_vms, snapshot and
\* restore from node n of ids on: the backend operation is called for node
\* after node and what it returns is dropped
backend_operation(prov, op, node_id, snapshot_name, o) ==
    CASE op = "delete_vm" -> delete_vm(prov, node_id, o)
      [] op = "stop_vm"   -> stop_vm(prov, node_id, o)
      [] op = "start_vm"  -> start_vm(prov, node_id, o)
      [] op = "snapshot"  -> snapshot(prov, node_id, snapshot_name, o)
      [] op = "restore"   -> restore(prov, node_id, snapshot_name, o)

\* mutant of for_nodes: a false result ends the loop
RECURSIVE for_nodes_until_false(_, _, _, _, _, _, _)
for_nodes_until_false(prov, op, ids, snapshot_name, o, n, cs) ==
    IF n > Len(ids) THEN Result(prov, cs, <<>>, "none")
    ELSE LET r == backend_operation(prov, op, ids[n], snapshot_name, o[ids[n]])
         IN  IF r.ret = FALSE THEN Result(r.prov, cs \o r.calls, <<>>, "none")
             ELSE for_nodes_until_false(r.prov, op, ids, snapshot_name, o, n + 1,
                                        cs \o r.calls)

RECURSIVE for_nodes(_, _, _, _, _, _, _)
for_nodes(prov, op, ids, snapshot_name, o, n, cs) ==
    IF n > Len(ids) THEN Result(prov, cs, <<>>, "none")
    ELSE LET r == backend_operation(prov, op, ids[n], snapshot_name, o[ids[n]])
         IN  for_nodes(r.prov, op, ids, snapshot_name, o, n + 1, cs \o r.calls)

Workspace_clean_vms(prov, ids, o) == for_nodes(prov, "delete_vm", ids, "", o, 1, <<>>)
Workspace_stop_vms(prov, ids, o) == for_nodes(prov, "stop_vm", ids, "", o, 1, <<>>)
Workspace_start_vms(prov, ids, o) == for_nodes(prov, "start_vm", ids, "", o, 1, <<>>)
Workspace_snapshot(prov, ids, snapshot_name, o) ==
    for_nodes(prov, "snapshot", ids, snapshot_name, o, 1, <<>>)
Workspace_restore(prov, ids, snapshot_name, o) ==
    for_nodes(prov, "restore", ids, snapshot_name, o, 1, <<>>)

\* the nodes of the workspace whose operations are called here, in the
\* order of nodes.json
OperationNodes == <<S_a, S_b>>

WsCleanVms ==
    \E o \in [VMNames -> [1..2 -> CliOutcomes]] :
        ReturnedWith("Workspace.clean_vms", <<>>,
                     Workspace_clean_vms(multipass, OperationNodes, o), NoArgs)

WsStopVms ==
    \E o \in [VMNames -> [1..1 -> CliOutcomes]] :
        ReturnedWith("Workspace.stop_vms", <<>>,
                     Workspace_stop_vms(multipass, OperationNodes, o), NoArgs)

WsStartVms ==
    \E o \in [VMNames -> [1..1 -> CliOutcomes]] :
        ReturnedWith("Workspace.start_vms", <<>>,
                     Workspace_start_vms(multipass, OperationNodes, o), NoArgs)

WsSnapshot ==
    \E sn \in SnapshotNames, o \in [VMNames -> [1..3 -> CliOutcomes]] :
        ReturnedWith("Workspace.snapshot", <<>>,
                     Workspace_snapshot(multipass, OperationNodes, sn, o), NoArgs)

WsRestore ==
    \E sn \in SnapshotNames, o \in [VMNames -> [1..3 -> CliOutcomes]] :
        ReturnedWith("Workspace.restore", <<>>,
                     Workspace_restore(multipass, OperationNodes, sn, o), NoArgs)

BeExecCommand ==
    \E vm \in VMNames, o \in ExecOutcomes :
        ReturnedWith("exec_command", vm, exec_command(multipass, vm, CmdX, o),
                     Args(<<>>, FALSE, "", FALSE, o))

BePushFile ==
    \E vm \in VMNames, recursive \in BOOLEAN, o \in CliOutcomes :
        ReturnedWith("push_file", vm,
                     push_file(multipass, vm, P_local, P_logs, recursive, o),
                     Args(<<>>, FALSE, "", recursive, "ok"))

BePullFile ==
    \E vm \in VMNames, recursive \in BOOLEAN, o \in CliOutcomes :
        ReturnedWith("pull_file", vm,
                     pull_file(multipass, vm, P_logs, P_local, recursive, o),
                     Args(<<>>, FALSE, "", recursive, "ok"))

BePushDir ==
    \E vm \in VMNames, o \in PushOracles :
        ReturnedWith("push_dir", vm, push_dir(multipass, vm, P_local, P_logs, o),
                     Args(<<>>, TRUE, "", TRUE, o.exec[1]))

BePullDir ==
    \E vm \in VMNames, o \in [makedirs : BOOLEAN, transfer : CliOutcomes] :
        ReturnedWith("pull_dir", vm, pull_dir(multipass, vm, P_logs, P_local, o),
                     Args(<<>>, FALSE, "DIR", TRUE, "ok"))

(***************************************************************************)
(* Log collection: Workspace.clog and the target directory it fills.  The  *)
(* target directory is held as its top-level files and, per node, the      *)
(* subdirectory of that node with the files in it.                         *)
(***************************************************************************)
Dir(exists, files) == [exists |-> exists, files |-> files]
NoDir == Dir(FALSE, {})
Tree(exists, files, dirs) == [exists |-> exists, files |-> files, dirs |-> dirs]
NoTree == Tree(FALSE, {}, [n \in VMNames |-> NoDir])

\* the files of the logs directory of each node, the same at every run
RemoteLogs == (S_a :> {"a.log", "a.err"}) @@ (S_b :> {"b.log"})

\* what the target directory can hold before the first run
StaleTrees ==
    {NoTree,
     Tree(TRUE, {}, [n \in VMNames |-> NoDir]),
     Tree(TRUE, {"old"}, [n \in VMNames |-> NoDir]),
     Tree(TRUE, {}, (S_a :> Dir(TRUE, {"old", "a.log"})) @@ (S_b :> NoDir)),
     Tree(TRUE, {"old"}, (S_a :> Dir(TRUE, {"a.log"})) @@ (S_b :> Dir(TRUE, {"old"})))}

\* mutant of rmtree: the tree is left as it is
rmtree_keep(tree) == tree

\* shutil.rmtree(target_dir)
rmtree(tree) == NoTree

\* real_target_dir.mkdir(parents=True, exist_ok=True) for node_id
mkdir_parents(tree, node_id) ==
    Tree(TRUE, tree.files,
         [tree.dirs EXCEPT ![node_id] = IF @.exists THEN @ ELSE Dir(TRUE, {})])

\* "multipass transfer -r node:logs real_target_dir" has exited 0: the files
\* of the logs directory are in the subdirectory, next to what it held
transferred(tree, node_id) ==
    [tree EXCEPT !.dirs[node_id].files = @ \cup RemoteLogs[node_id]]

\* VMConfig.get_dir("logs") is None
logs_dir_is_none(node_id) == "logs" \notin DOMAIN nodes.cfg[node_id].directories

\* print(f"collect logs from {node_id}:{logs_dir} to ... {what}")
print_collect(node_id, what) == Call("print", node_id, what, "ok")

\* the body of the loop of clog for node_id once pull has ended as p: the
\* subdirectory is made and the first line printed before the pull, the
\* second line after it, and what pull raises leaves clog
clog_pulled(prov, tree, node_id, p) ==
    Result(prov,
           <<print_collect(node_id, <<".", ".", ".">>)>> \o p.calls
           \o (IF p.raised = "none" THEN <<print_collect(node_id, <<"d", "o", "n", "e">>)>>
               ELSE <<>>),
           IF p.raised = "none" THEN transferred(mkdir_parents(tree, node_id), node_id)
           ELSE mkdir_parents(tree, node_id),
           p.raised)

\* the body of the loop of clog for a node with a logs directory
clog_node(prov, o, tree, node_id) ==
    clog_pulled(prov, tree, node_id,
                pull(prov, o, node_id, nodes.cfg[node_id].directories["logs"],
                     P_local \o <<"/">> \o node_id, TRUE))

ClogNodes ==
    {[ids |-> <<S_a, S_b>>,
      cfg |-> (S_a :> VMConfig(<<>>, <<>>, ("logs" :> P_logs)))
              @@ (S_b :> VMConfig(<<>>, <<>>, d))] : d \in {<<>>, ("logs" :> P_logs)}}

Run(raised, tree) == [raised |-> raised, tree |-> tree]

FsIdle ==
    /\ local_tree = NoTree
    /\ clog_runs = <<>>

\* Workspace.load against VMs that run or are stopped, and the call of clog
ClogInit ==
    /\ nodes \in ClogNodes
    /\ instance_order = <<S_a, S_b>>
    /\ local_tree \in StaleTrees
    /\ clog_runs = <<>>
    /\ multipass \in {[n \in VMNames |-> Instance(st[n], {})] :
                        st \in [VMNames -> {"running", "stopped"}]}
    /\ calls = <<>>
    /\ be_last = NoOp
    /\ be_prev = NoOp
    /\ be_args = NoArgs
    /\ ws_pc = "clog"
    /\ ws_i = 0
    /\ ws_k = 0
    /\ ws_j = 0
    /\ ws_env = <<>>
    /\ ws_mark = 0
    /\ ws_error = "none"

\* clog: "if target_dir.exists(): shutil.rmtree(target_dir)"
ClogWipe ==
    /\ ws_pc = "clog"
    /\ ws_i = 0
    /\ local_tree' = IF local_tree.exists THEN rmtree(local_tree) ELSE local_tree
    /\ calls' = <<>>
    /\ ws_i' = 1
    /\ UNCHANGED <<nodes, instance_order, ws_pc, ws_k, ws_j, ws_env, ws_mark, ws_error>>
    /\ UNCHANGED <<resolveVars, mgrVars, appVars, clog_runs, multipass, be_last, be_prev, be_args>>

\* the loop body of clog has ended as r for the node in hand
ClogStep(r) ==
    /\ calls' = calls \o r.calls
    /\ local_tree' = r.ret
    /\ ws_error' = r.raised
    /\ ws_pc' = IF r.raised = "none" THEN "clog" ELSE "raised"
    /\ clog_runs' = IF r.raised = "none" THEN clog_runs
                    ELSE Append(clog_runs, Run(r.raised, r.ret))

\* clog: the next node has a logs directory: its subdirectory is made and
\* the directory is pulled into it
ClogNode ==
    /\ ws_pc = "clog"
    /\ ws_i \in 1..Len(nodes.ids)
    /\ ~logs_dir_is_none(nodes.ids[ws_i])
    /\ \E o \in DeviceOracles : ClogStep(clog_node(multipass, o, local_tree, nodes.ids[ws_i]))
    /\ ws_i' = ws_i + 1
    /\ UNCHANGED <<nodes, instance_order, ws_k, ws_j, ws_env, ws_mark>>
    /\ UNCHANGED <<resolveVars, mgrVars, appVars, multipass, be_last, be_prev, be_args>>

\* clog: the next node has no logs directory: "continue", nothing printed
ClogSkipNode ==
    /\ ws_pc = "clog"
    /\ ws_i \in 1..Len(nodes.ids)
    /\ logs_dir_is_none(nodes.ids[ws_i])
    /\ ws_i' = ws_i + 1
    /\ UNCHANGED <<nodes, instance_order, ws_pc, ws_k, ws_j, ws_env, ws_mark, ws_error>>
    /\ UNCHANGED <<resolveVars, mgrVars, appVars, fsVars, beVars>>

\* clog returns
ClogReturn ==
    /\ ws_pc = "clog"
    /\ ws_i > Len(nodes.ids)
    /\ ws_pc' = "done"
    /\ clog_runs' = Append(clog_runs, Run("none", local_tree))
    /\ UNCHANGED <<nodes, instance_order, ws_i, ws_k, ws_j, ws_env, ws_mark, ws_error>>
    /\ UNCHANGED <<resolveVars, mgrVars, appVars, local_tree, beVars>>

\* the clog command is given again, for the same target directory
ClogAgain ==
    /\ ws_pc \in {"done", "raised"}
    /\ Len(clog_runs) < MaxClogRuns
    /\ ws_pc' = "clog"
    /\ ws_i' = 0
    /\ ws_error' = "none"
    /\ UNCHANGED <<nodes, instance_order, ws_k, ws_j, ws_env, ws_mark>>
    /\ UNCHANGED <<resolveVars, mgrVars, appVars, fsVars, beVars>>

(***************************************************************************)
(* The command-line entry point: main parses argv, builds the workspace    *)
(* and hands it to the handler of the command.                             *)
(***************************************************************************)
\* the commands build_parser knows; every one of them sets a handler
Subcommands ==
    {"clean_vms", "create_vms", "snapshot", "restore", "info_vms", "start_vms",
     "stop_vms", "install", "update", "start", "stop", "clog", "run", "exec"}

\* cmd_name of an app_cmd without ".", which handle_exec_app does not split
NoCmd == "None"

\* the command lines main is given, as the arguments parse_args makes of
\* them: a known command with its arguments, a word that is no command
\* ("bogus"), and no command at all ("")
MainArgs ==
    {op \in HandlerOps : op.handler \in Subcommands}
    \cup
    {[handler |-> h, device_id |-> None, apps |-> NoApps, app_name |-> <<>>,
      cmd_name |-> "none"] :
        h \in (Subcommands \ {"install", "update", "start", "exec"}) \cup {"bogus", ""}}
    \cup
    {[handler |-> "exec", device_id |-> d, apps |-> NoApps, app_name |-> S_app,
      cmd_name |-> NoCmd] : d \in {None, S_a, S_z}}

MainInit ==
    /\ ws_op \in MainArgs
    /\ app_list = [names |-> <<>>, cfg |-> <<>>]
    /\ processed = <<>>
    /\ nodes = [ids |-> <<>>, cfg |-> <<>>]
    /\ instance_order = <<>>
    /\ ws_pc = "parse_args"
    /\ ws_i = 0
    /\ ws_k = 0
    /\ ws_j = 0
    /\ ws_env = <<>>
    /\ ws_mark = 0
    /\ ws_error = "none"

\* parser.parse_args(argv): the sub-command is required and must be one of
\* Subcommands, else argparse prints the usage and raises SystemExit(2)
MainParseArgs ==
    /\ ws_pc = "parse_args"
    /\ IF ws_op.handler \in Subcommands
       THEN /\ ws_pc' = "build_workspace"
            /\ UNCHANGED <<ws_mark, ws_error>>
       ELSE /\ ws_pc' = "exited"
            /\ ws_mark' = 2
            /\ ws_error' = "SystemExit"
    /\ UNCHANGED <<nodes, instance_order, ws_i, ws_k, ws_j, ws_env>>
    /\ UNCHANGED <<resolveVars, mgrVars, fsVars, appVars, beVars>>

\* VMManager.get_instance() in Workspace.__init__ has ended as r
Constructed(r) ==
    /\ VMManager_instance' = r.m.instance
    /\ VMManager_backend_type' = r.m.backend_type
    /\ heap' = r.m.heap
    /\ requests' = Append(requests,
                          [backend_type |-> "multipass", raised |-> r.raised,
                           ret |-> r.ret, backend |-> r.m.heap[r.ret].backend])

\* build_workspace(args.group_name): Workspace(group_name, Path(dir)) hands
\* the group name, a str, over as workspace_dir; Workspace.__init__ gets the
\* manager and then evaluates workspace_dir / "templates", str / str, which
\* raises TypeError.  Nothing in main catches it.
MainBuildWorkspace ==
    /\ ws_pc = "build_workspace"
    /\ Constructed(VMManager_call(MgrState, "multipass"))
    /\ ws_pc' = "raised"
    /\ ws_error' = "TypeError"
    /\ UNCHANGED <<nodes, instance_order, ws_i, ws_k, ws_j, ws_env, ws_mark>>
    /\ UNCHANGED <<resolveVars, fsVars, appVars, beVars>>

(***************************************************************************)
(* The environment snapshot as its two callers build it: info_vms (the     *)
(* global snapshot) and execute_app_command (the snapshot of one app on    *)
(* one node, then the commands run against it).                            *)
(***************************************************************************)
\* nodes.json in which node a declares, next to app, an app that bears the
\* id of node b and an app named "system"
EnvNodes ==
    [ids |-> <<S_a, S_b>>,
     cfg |-> (S_a :> VMConfig(<<>>, (S_app :> (S_x :> <<"7">>))
                                    @@ (S_b :> (S_x :> <<"8">>))
                                    @@ (S_system :> (S_x :> <<"5">>)), <<>>))
             @@ (S_b :> VMConfig(<<>>, (S_app :> (S_x :> <<"9">>)), <<>>))]

CmdInstallB == <<"i", " ">> \o Ref(S_b, S_x)

EnvAppList ==
    [names |-> <<S_app, S_b>>,
     cfg |-> (S_app :> AppConfig(<<>>, ("install" :> <<CmdInstallX>>)
                                       @@ ("start" :> <<CmdX, CmdInstallB, CmdY>>)
                                       @@ ("stop" :> <<CmdY, CmdInstallX, CmdPingB>>)))
             @@ (S_b :> AppConfig(<<>>, ("install" :> <<CmdInstallB>>)))]

EnvOps ==
    {[handler |-> "info_vms", device_id |-> None, apps |-> NoApps, app_name |-> <<>>,
      cmd_name |-> "none"]}
    \cup
    {[handler |-> "execute_app_command", device_id |-> d, apps |-> NoApps,
      app_name |-> n, cmd_name |-> c] :
        d \in {S_a, S_b}, n \in {S_app, S_b, S_system}, c \in {"install", "start", "stop"}}

\* Workspace.load against VMs that run or are stopped, and the call
EnvInit ==
    /\ nodes = EnvNodes
    /\ instance_order = <<S_a, S_b>>
    /\ app_list = EnvAppList
    /\ ws_op \in EnvOps
    /\ processed = <<>>
    /\ multipass \in {[n \in VMNames |-> Instance(st[n], {})] :
                        st \in [VMNames -> {"running", "stopped"}]}
    /\ calls = <<>>
    /\ be_last = NoOp
    /\ be_prev = NoOp
    /\ be_args = NoArgs
    /\ ws_pc = "call"
    /\ ws_i = 0
    /\ ws_k = 0
    /\ ws_j = 0
    /\ ws_env = <<>>
    /\ ws_mark = 0
    /\ ws_error = "none"

\* the loop of info_vms from node n of ids on: vm_mgr.get_vm_ip(node_id),
\* whose exception leaves info_vms
RECURSIVE info_vms_nodes(_, _, _, _, _)
info_vms_nodes(prov, ids, o, n, cs) ==
    IF n > Len(ids) THEN Result(prov, cs, <<>>, "none")
    ELSE LET g == get_vm_ip(prov, ids[n], o[ids[n]])
         IN  IF g.raised # "none" THEN Result(prov, cs \o g.calls, <<>>, g.raised)
             ELSE info_vms_nodes(prov, ids, o, n + 1, cs \o g.calls)

\* Workspace.info_vms: the addresses of every node, then build_env_params(),
\* which is printed
Workspace_info_vms(prov, ids, o, o2) ==
    Then(info_vms_nodes(prov, ids, o, 1, <<>>), build_env_params(prov, ids, <<>>, o2))

\* a call that builds a snapshot has ended as r; ws_mark tells that a
\* snapshot was returned
SnapshotBuilt(r, pc) ==
    /\ calls' = r.calls
    /\ ws_env' = r.ret
    /\ ws_mark' = IF r.raised = "none" THEN 1 ELSE 0
    /\ ws_error' = r.raised
    /\ ws_pc' = IF r.raised = "none" THEN pc ELSE "raised"

EnvInfoVms ==
    /\ ws_pc = "call"
    /\ ws_op.handler = "info_vms"
    /\ \E o \in [VMNames -> InfoOracles], o2 \in [VMNames -> InfoOracles] :
          SnapshotBuilt(Workspace_info_vms(multipass, nodes.ids, o, o2), "done")
    /\ UNCHANGED <<nodes, instance_order, ws_i, ws_k, ws_j, multipass>>
    /\ UNCHANGED <<resolveVars, mgrVars, fsVars, appVars, be_last, be_prev, be_args>>

\* execute_app_command up to "env_params = self.build_env_params(...)": the
\* node and the app's parameters on it are looked up, then the snapshot is
\* built over {app_name: app_param}
execute_app_command_snapshot(prov, o, device_id, app_name) ==
    IF ~HasNode(device_id) THEN Result(prov, <<>>, <<>>, "ValueError")
    ELSE IF get_app_params_is_none(device_id, app_name)
    THEN Result(prov, <<>>, <<>>, "ValueError")
    ELSE build_env_params(prov, nodes.ids,
                          (app_name :> nodes.cfg[device_id].apps[app_name]), o)

EnvExecuteAppCommandSnapshot ==
    /\ ws_pc = "call"
    /\ ws_op.handler = "execute_app_command"
    /\ \E o \in [VMNames -> InfoOracles] :
          SnapshotBuilt(execute_app_command_snapshot(multipass, o, ws_op.device_id,
                                                     ws_op.app_name), "snapshot")
    /\ UNCHANGED <<nodes, instance_order, ws_i, ws_k, ws_j, multipass>>
    /\ UNCHANGED <<resolveVars, mgrVars, fsVars, appVars, be_last, be_prev, be_args>>

\* the commands have ended as r
CommandsRun(r) ==
    /\ calls' = calls \o r.calls
    /\ ws_error' = r.raised
    /\ ws_pc' = IF r.raised = "none" THEN "done" ELSE "raised"

\* execute_app_command from get_app on, against the snapshot just built
EnvExecuteAppCommandRun ==
    /\ ws_pc = "snapshot"
    /\ \E o \in [exec : [1..LongestCommandList -> ExecOutcomes]] :
          CommandsRun(execute_app_command_with(
                          multipass, o, ws_op.device_id, ws_op.app_name, ws_op.cmd_name,
                          FALSE, Result(multipass, <<>>, ws_env, "none")))
    /\ UNCHANGED <<nodes, instance_order, ws_i, ws_k, ws_j, ws_env, ws_mark, multipass>>
    /\ UNCHANGED <<resolveVars, mgrVars, fsVars, appVars, be_last, be_prev, be_args>>

(***************************************************************************)
(* The specifications.                                                     *)
(***************************************************************************)
InitCreateVms == CreateVmsInit /\ ResolveIdle /\ MgrIdle /\ AppIdle /\ FsIdle
NextCreateVms ==
    \/ CreateVmsCreate
    \/ CreateVmsBuildEnv
    \/ CreateVmsNextNode
    \/ CreateVmsRunCommand
    \/ CreateVmsReturn
SpecCreateVms == InitCreateVms /\ [][NextCreateVms]_vars

InitHandlers == HandlerInit /\ ResolveIdle /\ MgrIdle /\ FsIdle
NextHandlers ==
    \/ HandleInstall
    \/ HandleUpdate
    \/ HandleStart
    \/ HandleExecApp
    \/ CallExecuteAppCommand
    \/ HandlerReturn
SpecHandlers == InitHandlers /\ [][NextHandlers]_vars

InitMain == MainInit /\ ResolveIdle /\ MgrIdle /\ BeIdle /\ FsIdle
NextMain ==
    \/ MainParseArgs
    \/ MainBuildWorkspace
SpecMain == InitMain /\ [][NextMain]_vars

InitEnv == EnvInit /\ ResolveIdle /\ MgrIdle /\ FsIdle
NextEnv ==
    \/ EnvInfoVms
    \/ EnvExecuteAppCommandSnapshot
    \/ EnvExecuteAppCommandRun
SpecEnv == InitEnv /\ [][NextEnv]_vars

InitClog == ClogInit /\ ResolveIdle /\ MgrIdle /\ AppIdle
NextClog ==
    \/ ClogWipe
    \/ ClogNode
    \/ ClogSkipNode
    \/ ClogReturn
    \/ ClogAgain
SpecClog == InitClog /\ [][NextClog]_vars

InitOperations == BeInit /\ ResolveIdle /\ MgrIdle /\ WsIdle /\ AppIdle /\ FsIdle
NextOperations ==
    \/ OpCreateVm
    \/ OpDeleteVm
    \/ OpSnapshot
    \/ OpRestore
    \/ OpStopVm
    \/ OpStartVm
    \/ BeExecCommand
    \/ BePushFile
    \/ BePullFile
    \/ BePushDir
    \/ BePullDir
    \/ DevGetDeviceInfo
    \/ DevPush
    \/ DevPull
    \/ DevRunCommand
    \/ WsCleanVms
    \/ WsStopVms
    \/ WsStartVms
    \/ WsSnapshot
    \/ WsRestore
SpecOperations == InitOperations /\ [][NextOperations]_vars

InitBackend == BeInit /\ ResolveIdle /\ MgrIdle /\ WsIdle /\ AppIdle /\ FsIdle
NextBackend ==
    \/ BeCreateVm
    \/ BeDeleteVm
    \/ BeSnapshot
    \/ BeRestore
    \/ BeStopVm
    \/ BeStartVm
    \/ BeIsVmExists
SpecBackend == InitBackend /\ [][NextBackend]_vars

InitManager == MgrInit /\ ResolveIdle /\ BeIdle /\ WsIdle /\ AppIdle /\ FsIdle
NextManager == ConstructVMManager \/ GetInstance
SpecManager == InitManager /\ [][NextManager]_vars

InitResolve == ResolveInit /\ MgrIdle /\ BeIdle /\ WsIdle /\ AppIdle /\ FsIdle
NextResolve == ResolveString
SpecResolve == InitResolve /\ [][NextResolve]_vars


(***************************************************************************)
(* The grammar {{object.attribute}} stated on its own: a reference of s    *)
(* opens at i, has its dot at j and closes at k, with a non-empty run of   *)
(* word characters on each side of the dot.                                *)
(***************************************************************************)
IsWordRun(s, lo, hi) == lo <= hi /\ \A n \in lo..hi : s[n] \in WordChars

Opens(s) == {i \in 1..(Len(s) - 1) : s[i] = "{" /\ s[i + 1] = "{"}
Dots(s) == {j \in 1..Len(s) : s[j] = "."}
Closes(s) == {k \in 1..(Len(s) - 1) : s[k] = "}" /\ s[k + 1] = "}"}

References(s) ==
    {r \in Opens(s) \X Dots(s) \X Closes(s) :
        /\ IsWordRun(s, r[1] + 2, r[2] - 1)
        /\ IsWordRun(s, r[2] + 1, r[3] - 1)}

RefObj(s, r) == SubSeq(s, r[1] + 2, r[2] - 1)
RefAttr(s, r) == SubSeq(s, r[2] + 1, r[3] - 1)

\* the reference names an object key and an attribute the snapshot holds
RefPresent(s, r, env) ==
    /\ RefObj(s, r) \in DOMAIN env
    /\ RefAttr(s, r) \in DOMAIN env[RefObj(s, r)]

Braces(s) == {n \in 1..Len(s) : s[n] \in {"{", "}"}}

C3_SingletonAndMismatch ==
    \A i, j \in 1..Len(requests) :
        (i < j /\ requests[i].raised = "none")
            => /\ requests[j].raised = "none" => requests[j].ret = requests[i].ret
               /\ requests[j].backend_type # requests[i].backend_type
                     => /\ requests[j].raised = "ValueError"
                        /\ requests[j].ret = NoObject

\* C3 witness: after a successful construction, one request naming the same
\* implementation has returned a manager and one naming another has raised.
C3_Witness ==
    \E i, j, k \in 1..Len(requests) :
        /\ i < j /\ j < k
        /\ requests[i].raised = "none"
        /\ requests[j].backend_type # requests[i].backend_type
        /\ requests[j].raised = "ValueError"
        /\ requests[k].backend_type = requests[i].backend_type
        /\ requests[k].raised = "none"
        /\ requests[k].ret # NoObject


\* the names of the CLI calls issued, in order
CallNames == [n \in 1..Len(calls) |-> calls[n].cmd]

\* C4: snapshot and restore issue stop, then snapshot/restore, then start;
\* the first failing call is the last call issued (no later step, no
\* compensating step), the operation then returns false without raising and
\* the VM stays as the last successful step left it (stopped when the middle
\* step fails); it returns true only when all three calls succeeded.
C4_ThreeStepsNoRollback ==
    be_last.op \in {"snapshot", "restore"}
        => /\ Len(calls) \in 1..3
           /\ CallNames = SubSeq(<<"stop", be_last.op, "start">>, 1, Len(calls))
           /\ \A n \in 1..Len(calls) :
                 /\ calls[n].vm = be_last.vm
                 /\ n < Len(calls) => calls[n].outcome = "ok"
           /\ be_last.raised = "none"
           /\ be_last.ret = (Len(calls) = 3 /\ calls[3].outcome = "ok")
           /\ (Len(calls) = 2 /\ calls[2].outcome # "ok")
                 => multipass[be_last.vm].state = "stopped"
           /\ be_last.ret => multipass[be_last.vm].state = "running"

\* C4 witness: a restore whose stop succeeded and whose restore step failed
\* has returned false with the VM stopped.
C4_Witness ==
    /\ be_last.op = "restore"
    /\ Len(calls) = 2
    /\ calls[1].outcome = "ok"
    /\ calls[2].outcome = "nonzero"
    /\ ~be_last.ret
    /\ multipass[be_last.vm].state = "stopped"

\* C7: create_vm never raises and returns a boolean; after a failed launch
\* it returns false and has run no init command; after a successful launch
\* it has passed every init command of the node to exec, in list order, and
\* returns true.
C7_CreateVmReportsLaunch ==
    be_last.op = "create_vm"
        => LET init == BackendConfig[be_last.vm].init_commands
           IN  /\ be_last.raised = "none"
               /\ be_last.ret \in BOOLEAN
               /\ Len(calls) >= 1
               /\ calls[1].cmd = "launch"
               /\ calls[1].outcome # "ok"
                     => (~be_last.ret /\ Len(calls) = 1)
               /\ calls[1].outcome = "ok"
                     => /\ be_last.ret
                        /\ Len(calls) = 1 + Len(init)
                        /\ \A n \in 1..Len(init) :
                              /\ calls[n + 1].cmd = "exec"
                              /\ calls[n + 1].vm = be_last.vm
                              /\ calls[n + 1].arg = init[n]

\* C7 witness: a create_vm whose launch succeeded has returned true although
\* its first init command timed out, the second having run after it.
C7_Witness ==
    /\ be_last.op = "create_vm"
    /\ be_last.ret
    /\ Len(calls) = 3
    /\ calls[2].outcome = "timeout"
    /\ calls[3].cmd = "exec"

\* C7 witness of the failing case: a launch that failed, create_vm false
C7_WitnessLaunchFailed ==
    /\ be_last.op = "create_vm"
    /\ ~be_last.ret
    /\ calls[1].outcome = "nonzero"

\* an existence check that directly follows create_vm for the same name
ExistsAfterCreate ==
    /\ be_last.op = "is_vm_exists"
    /\ be_prev.op = "create_vm"
    /\ be_prev.vm = be_last.vm

\* C8 as stated: for every node, an existence check made immediately after
\* create_vm for the same name has returned yields true.
C8_ExistsAfterAnyCreate == ExistsAfterCreate => be_last.ret

\* C8 amended: an existence check made immediately after create_vm for the
\* same name has returned true yields true, provided the provider's list
\* call itself succeeds.
C8_ExistsAfterSuccessfulCreate ==
    (ExistsAfterCreate /\ be_prev.ret /\ calls[1].outcome = "ok") => be_last.ret

\* C8 witness: create_vm returned true and the existence check that follows
\* it, its list call succeeding, has returned true.
C8_Witness ==
    /\ ExistsAfterCreate
    /\ be_prev.ret
    /\ calls[1].outcome = "ok"
    /\ be_last.ret


\* the calls create_vms has issued since it built the snapshot
InstanceCalls ==
    IF ws_pc \in {"idle", "create", "build_env"} THEN <<>>
    ELSE SubSeq(calls, ws_mark + 1, Len(calls))

\* the instance commands of the declared order, entry after entry and
\* within one node in list order; an entry that is no node has none
RECURSIVE PlannedFrom(_, _)
PlannedFrom(k, j) ==
    IF k > Len(instance_order) THEN <<>>
    ELSE IF ~HasNode(instance_order[k])
            \/ j > Len(nodes.cfg[instance_order[k]].instance_commands)
         THEN PlannedFrom(k + 1, 1)
         ELSE <<[vm |-> instance_order[k],
                 template |-> nodes.cfg[instance_order[k]].instance_commands[j]]>>
              \o PlannedFrom(k, j + 1)

Planned == PlannedFrom(1, 1)

\* C1: during create_vms the instance commands run node by node in the
\* sequence of instance_order and within a node in list order, whatever the
\* order of the node dictionary: what has run is always an initial part of
\* that plan, and all of it once create_vms has returned.
C1_InstanceOrderDecides ==
    /\ Len(InstanceCalls) <= Len(Planned)
    /\ \A m \in 1..Len(InstanceCalls) :
          /\ InstanceCalls[m].cmd = "exec"
          /\ InstanceCalls[m].vm = Planned[m].vm
          /\ InstanceCalls[m].arg = resolve_string(Planned[m].template, ws_env).value
    /\ ws_pc = "done" => Len(InstanceCalls) = Len(Planned)

\* C1 witness: create_vms has returned after running three or more instance
\* commands in an order, b before a, that is not the dictionary's.
C1_Witness ==
    /\ ws_pc = "done"
    /\ nodes.ids = <<S_a, S_b>>
    /\ instance_order = <<S_b, S_a>>
    /\ Len(InstanceCalls) >= 3
    /\ InstanceCalls[1].vm = S_b

\* the two-node topology in which a's instance command references {{b.ip}}
\* and no command references an undeclared object
A_References_B ==
    /\ nodes.cfg[S_a].instance_commands \in {<<CmdPingB>>, <<CmdX, CmdPingB>>}
    /\ nodes.cfg[S_b].instance_commands \in InstanceCommandsOfB

\* C2 as stated: with bring-up order [b, a] create_vms meets no resolution
\* error; with the reversed order [a, b] it fails with a resolution error
\* (it never returns), b being unresolved when a's commands run.
C2_ReversedOrderFails ==
    (ws_pc # "idle" /\ A_References_B)
        => /\ instance_order = <<S_b, S_a>> => ws_error # "ValueError"
           /\ instance_order = <<S_a, S_b>> => ws_pc # "done"

\* a's command has run on a with b's address of the snapshot in it
PingBRan ==
    \E m \in 1..Len(InstanceCalls) :
        /\ InstanceCalls[m].vm = S_a
        /\ InstanceCalls[m].arg = <<"p", " ">> \o ws_env[S_b][S_ip]

\* C2 amended: with either bring-up order, [b, a] or [a, b], create_vms
\* meets no resolution error: the snapshot is built after create has been
\* issued for both nodes and holds b's ip before any instance command runs.
\* create_vms can only fail at the snapshot step, before any instance
\* command, and when it returns a's command has run with b's address.
C2_EitherOrderResolves ==
    (ws_pc # "idle" /\ A_References_B
       /\ instance_order \in {<<S_b, S_a>>, <<S_a, S_b>>})
        => /\ ws_error # "ValueError"
           /\ ws_pc = "raised" => InstanceCalls = <<>>
           /\ ws_pc \in {"instance", "done"} => S_b \in DOMAIN ws_env
           /\ ws_pc = "done" => PingBRan

\* C2 witness: with order [a, b] create_vms has returned, a's command having
\* run with b's address before any command of b.
C2_Witness ==
    /\ A_References_B
    /\ instance_order = <<S_a, S_b>>
    /\ ws_pc = "done"
    /\ PingBRan
    /\ InstanceCalls[1].vm = S_a

\* the handler in hand is one of install, update, start, invoked without a
\* device id, that is for all devices
FanOut == ws_op.handler \in {"install", "update", "start"} /\ ws_op.device_id = None

\* C9: when install, update or start is invoked for all devices, an error
\* raised while processing one device is caught and reported and processing
\* continues with every remaining device: the handler never ends with that
\* error, and when it has ended every device of the workspace was processed.
C9_FanOutCatchesAndContinues ==
    FanOut => /\ ws_pc # "raised"
              /\ ws_pc = "done" => Len(processed) = Len(nodes.ids)

\* the calls of the command list that handle_exec_app has run on the device
\* in hand: the "multipass exec" calls of the one Workspace.run
ListCalls == SelectSeq(calls, LAMBDA c : c.cmd = "exec")

\* C10: when a command list is run on one device (Workspace.run), once one
\* command of the list fails to execute successfully no later command of
\* that list is run on that device.
C10_AbortsOnFirstFailure ==
    ws_op.handler = "exec" =>
        \A m \in 1..Len(ListCalls) : ListCalls[m].outcome # "ok" => m = Len(ListCalls)

\* the device the handler handed to the workspace last, and how that ended
LastDevice == processed[Len(processed)].device_id
LastRaised == processed[Len(processed)].raised

\* the app names install and update work through
RequestedApps == IF ws_op.apps = NoApps THEN app_list.names ELSE ws_op.apps

IsMkdir(c) ==
    c.cmd = "exec" /\ StartsWith(c.arg, <<"m", "k", "d", "i", "r", " ", "-", "p", " ">>)

\* the calls of the operation in hand that run a command or transfer files:
\* without the address lookups of the snapshot and without the mkdir that
\* belongs to a directory transfer, and without the diagnostic lines
StepCalls == SelectSeq(calls, LAMBDA c : c.cmd \notin {"info", "print"} /\ ~IsMkdir(c))

\* one step of a plan; Halt is the place where a lookup fails, which no call
\* matches
Step(cmd, vm, head, src, dst) == [cmd |-> cmd, vm |-> vm, head |-> head, src |-> src, dst |-> dst]
Halt == Step("halt", <<>>, "", <<>>, <<>>)

\* the commands named name of app_config, each as a step cmd on vm
CommandSteps(app_config, name, cmd, vm) ==
    IF name \notin DOMAIN app_config.commands THEN <<Halt>>
    ELSE [k \in 1..Len(app_config.commands[name]) |->
             Step(cmd, vm, Head(app_config.commands[name][k]), <<>>, <<>>)]

\* the transfer of directory src of app_config to directory dst on vm
PushStep(app_config, src, dst, vm) ==
    IF src \notin DOMAIN app_config.directories \/ dst \notin DOMAIN app_config.directories
    THEN Halt
    ELSE Step("transfer", vm, "", app_config.directories[src], app_config.directories[dst])

\* call c carries out step s
Matches(c, s) ==
    /\ c.cmd = s.cmd
    /\ c.vm = s.vm
    /\ s.cmd = "transfer" =>
          c.arg \in {s.src \o <<" ">> \o s.vm \o <<":">> \o s.dst,
                     <<"-", "r", " ">> \o s.src \o <<"/", ".", " ">> \o s.vm \o <<":">> \o s.dst}
    /\ s.cmd # "transfer" => Head(c.arg) = s.head

\* cs carries out the first Len(cs) steps of plan
CarriesOutPrefix(cs, plan) ==
    /\ Len(cs) <= Len(plan)
    /\ \A k \in 1..Len(cs) : Matches(cs[k], plan[k])

\* what install(device) has to do for apps[n..]: nothing for an app the node
\* does not declare, else build_all on the host, the push of source to
\* target, install on the device
RECURSIVE InstallPlan(_, _, _)
InstallPlan(d, apps, n) ==
    IF n > Len(apps) THEN <<>>
    ELSE IF apps[n] \notin DOMAIN nodes.cfg[d].apps THEN InstallPlan(d, apps, n + 1)
    ELSE IF apps[n] \notin DOMAIN app_list.cfg THEN <<Halt>>
    ELSE CommandSteps(app_list.cfg[apps[n]], "build_all", "os.system", LOCALHOST)
         \o <<PushStep(app_list.cfg[apps[n]], "source", "target", d)>>
         \o CommandSteps(app_list.cfg[apps[n]], "install", "exec", d)
         \o InstallPlan(d, apps, n + 1)

\* C11: install(device) does, for the requested apps in order, nothing for an
\* app the node does not declare and otherwise build_all on the host, then
\* the push of source to target on the device, then install on the device;
\* what it has done is always a prefix of that plan, the whole plan when it
\* returned, and a proper prefix when a step raised (no later step follows).
C11_InstallStepsInOrder ==
    (ws_op.handler = "install" /\ processed # <<>> /\ HasNode(LastDevice)) =>
        /\ CarriesOutPrefix(StepCalls, InstallPlan(LastDevice, RequestedApps, 1))
        /\ LastRaised = "none" <=>
              Len(StepCalls) = Len(InstallPlan(LastDevice, RequestedApps, 1))

\* C11 witness: install for all devices has processed b for the apps db and
\* app: db, which b does not declare, was skipped, and app was built on the
\* host, pushed and installed on b.
C11_Witness ==
    /\ ws_op.handler = "install"
    /\ ws_op.apps = <<S_db, S_app>>
    /\ Len(processed) = 2
    /\ LastDevice = S_b
    /\ LastRaised = "none"
    /\ Len(StepCalls) >= 3
    /\ StepCalls[1].cmd = "os.system"
    /\ StepCalls[2].cmd = "transfer"
    /\ StepCalls[Len(StepCalls)].cmd = "exec"

\* C11 witness of an error: the push to a failed, nothing followed it
C11_WitnessPushFailed ==
    /\ ws_op.handler = "install"
    /\ processed # <<>>
    /\ LastRaised = "Exception"
    /\ StepCalls # <<>>
    /\ StepCalls[Len(StepCalls)].cmd = "transfer"

\* the calls and the diagnostic lines of the operation in hand, without the
\* address lookups and the mkdir of a directory transfer
StepsAndPrints == SelectSeq(calls, LAMBDA c : c.cmd # "info" /\ ~IsMkdir(c))

\* call c is the diagnostic line about app on its device, or carries out s
MatchesOrPrints(c, s) ==
    IF s.cmd = "print" THEN c.cmd = "print" /\ c.vm = s.vm /\ c.arg = s.src
    ELSE Matches(c, s)

\* what update(device) has to do for apps[n..]: a diagnostic line and nothing
\* else for an app without source_bin, else build on the host, the push of
\* source_bin to target_bin, update on the device.  An app the node does not
\* declare makes execute_app_command raise before anything is run.
RECURSIVE UpdatePlan(_, _, _)
UpdatePlan(d, apps, n) ==
    IF n > Len(apps) THEN <<>>
    ELSE IF apps[n] \notin DOMAIN app_list.cfg THEN <<Halt>>
    ELSE IF "source_bin" \notin DOMAIN app_list.cfg[apps[n]].directories
    THEN <<Step("print", d, "", apps[n], <<>>)>> \o UpdatePlan(d, apps, n + 1)
    ELSE IF apps[n] \notin DOMAIN nodes.cfg[d].apps THEN <<Halt>>
    ELSE CommandSteps(app_list.cfg[apps[n]], "build", "os.system", LOCALHOST)
         \o <<PushStep(app_list.cfg[apps[n]], "source_bin", "target_bin", d)>>
         \o CommandSteps(app_list.cfg[apps[n]], "update", "exec", d)
         \o UpdatePlan(d, apps, n + 1)

\* app is requested, known to the app list and has no source_bin
SkippedInUpdate(app) ==
    /\ \E n \in 1..Len(RequestedApps) : RequestedApps[n] = app
    /\ app \in DOMAIN app_list.cfg
    /\ "source_bin" \notin DOMAIN app_list.cfg[app].directories

\* C12: update(device) gives an app without source_bin a diagnostic line and
\* runs no build, transfer or update command for it, raises nothing because
\* of it and goes on with the remaining requested apps; for every other app
\* the order is build on the host, push of source_bin to target_bin, update
\* on the device.
C12_UpdateSkipsWithoutSourceBin ==
    (ws_op.handler = "update" /\ processed # <<>> /\ HasNode(LastDevice)) =>
        /\ \A k \in 1..Len(StepsAndPrints) :
              /\ k <= Len(UpdatePlan(LastDevice, RequestedApps, 1))
              /\ MatchesOrPrints(StepsAndPrints[k], UpdatePlan(LastDevice, RequestedApps, 1)[k])
        /\ LastRaised = "none" <=>
              Len(StepsAndPrints) = Len(UpdatePlan(LastDevice, RequestedApps, 1))
        /\ \A c \in {calls[k] : k \in 1..Len(calls)} :
              c.cmd = "print" => SkippedInUpdate(c.arg)

\* C12 witness: update of a for the apps db and app returned: db, which has
\* no source_bin, got its diagnostic line first, and app was then built on
\* the host, pushed and updated on a.
C12_Witness ==
    /\ ws_op.handler = "update"
    /\ ws_op.apps = <<S_db, S_app>>
    /\ processed # <<>>
    /\ LastDevice = S_a
    /\ LastRaised = "none"
    /\ Len(StepsAndPrints) = 4
    /\ StepsAndPrints[1].cmd = "print"
    /\ StepsAndPrints[1].arg = S_db
    /\ StepsAndPrints[2].cmd = "os.system"
    /\ StepsAndPrints[3].cmd = "transfer"
    /\ StepsAndPrints[4].cmd = "exec"

\* the first address of ips in 10. or 192.
FirstPrivate(ips) ==
    ips[CHOOSE n \in 1..Len(ips) : IsPrivate(ips[n]) /\ \A q \in 1..(n - 1) : ~IsPrivate(ips[q])]

\* C13: get_device_info yields as ip the first reported address that starts
\* with 10. or 192. when the backend reports one, and the first reported
\* address when it reports addresses but none in those ranges.
C13_ResolveIpWithFallback ==
    (be_last.op = "get_device_info" /\ be_args.ips # <<>>) =>
        /\ be_last.raised = "none"
        /\ be_last.ret[S_ip] =
              IF \E n \in 1..Len(be_args.ips) : IsPrivate(be_args.ips[n])
              THEN FirstPrivate(be_args.ips) ELSE be_args.ips[1]

\* the argument text of "multipass transfer" from the local path to the VM
PushArg(flag, src, vm, dst) == flag \o src \o <<" ">> \o vm \o <<":">> \o dst
DashR == <<"-", "r", " ">>

\* C14: VMRemoteDevice.push selects the transfer path from the local path
\* type alone: a local directory goes through push_dir (mkdir -p on the VM,
\* then the recursive transfer of the directory's contents) whatever the
\* recursive flag, and a local file goes through push_file with exactly the
\* caller's recursive flag.
C14_PushSelectsByLocalType ==
    be_last.op = "push" =>
        IF be_args.isdir
        THEN /\ Len(calls) = 2
             /\ IsMkdir(calls[1])
             /\ calls[2].cmd = "transfer"
             /\ calls[2].arg = PushArg(DashR, P_local \o <<"/", ".">>, be_last.vm, P_logs)
        ELSE /\ Len(calls) = 1
             /\ calls[1].cmd = "transfer"
             /\ calls[1].arg = PushArg(IF be_args.recursive THEN DashR ELSE <<>>,
                                       P_local, be_last.vm, P_logs)

\* C14 witness: a local directory was pushed with recursive = False and went
\* through push_dir, the transfer succeeding.
C14_Witness ==
    /\ be_last.op = "push"
    /\ be_args.isdir
    /\ ~be_args.recursive
    /\ be_last.raised = "none"
    /\ Len(calls) = 2
    /\ calls[2].outcome = "ok"

\* C14 witness of the file path: a local file was pushed with recursive = True
C14_WitnessFile ==
    /\ be_last.op = "push"
    /\ ~be_args.isdir
    /\ be_args.recursive
    /\ be_last.raised = "none"


(***************************************************************************)
(* C15: log collection replaces the target directory.  Every run of clog   *)
(* that returns leaves the target directory holding nothing but one        *)
(* subdirectory for each node that declares a logs directory, with exactly *)
(* the files of that logs directory in it; whatever the directory held     *)
(* before the run, left by an earlier run or not, is gone.  Two runs in    *)
(* sequence over unchanged remote logs therefore leave the tree that one   *)
(* run leaves.                                                             *)
(***************************************************************************)
FreshTree ==
    Tree(TRUE, {},
         [n \in VMNames |->
            IF (\E k \in DOMAIN nodes.ids : nodes.ids[k] = n) /\ ~logs_dir_is_none(n)
            THEN Dir(TRUE, RemoteLogs[n]) ELSE NoDir])

Returned_runs == {i \in DOMAIN clog_runs : clog_runs[i].raised = "none"}

C15_ClogFullReplace ==
    /\ \A i \in Returned_runs : clog_runs[i].tree = FreshTree
    /\ \A i, j \in Returned_runs : clog_runs[i].tree = clog_runs[j].tree

C15_Witness ==
    /\ Len(clog_runs) = 2
    /\ Returned_runs = {1, 2}
    /\ ~logs_dir_is_none(S_b)
    /\ local_tree.dirs[S_b].files = RemoteLogs[S_b]


(***************************************************************************)
(* C16: execute_app_command called with a device the workspace does not    *)
(* hold, with an app the node does not declare or the app list does not    *)
(* hold, or with a command the app does not define, ends with ValueError   *)
(* and has run no command, on the host or on a device.                     *)
(***************************************************************************)
ConfigurationError(device_id, app_name, cmd_name) ==
    \/ ~HasNode(device_id)
    \/ get_app_params_is_none(device_id, app_name)
    \/ AppList_get_app_is_none(app_name)
    \/ AppConfig_get_command_is_none(app_list.cfg[app_name], cmd_name)

NothingExecuted == \A k \in DOMAIN calls : calls[k].cmd \notin {"exec", "os.system", "transfer"}

C16_ConfigurationErrorRaisedFirst ==
    (/\ ws_op.handler \in {"exec", "execute_app_command"}
     /\ processed # <<>>
     /\ ConfigurationError(LastDevice, ws_op.app_name, ws_op.cmd_name)) =>
        /\ LastRaised = "ValueError"
        /\ NothingExecuted

\* the part that holds: whatever is raised, nothing has been executed
C16_NothingExecutedOnConfigurationError ==
    (/\ ws_op.handler \in {"exec", "execute_app_command"}
     /\ processed # <<>>
     /\ ConfigurationError(LastDevice, ws_op.app_name, ws_op.cmd_name)) =>
        /\ LastRaised # "none"
        /\ NothingExecuted


(***************************************************************************)
(* C17: remote command execution never raises.  exec_command of the        *)
(* backend and run_command of RemoteDevice and of VMRemoteDevice return a  *)
(* (stdout, stderr) pair however the command ends, and when the timeout    *)
(* expires the pair is (None, "Command execution timed out").              *)
(***************************************************************************)
ExecutionOps ==
    {"exec_command", "VMRemoteDevice.run_command", "RemoteDevice.run_command",
     "RemoteDevice.run_command (ssh)"}

TimedOutPair == [stdout |-> "None", stderr |-> "Command execution timed out"]

C17_ExecutionNeverRaises ==
    be_last.op \in ExecutionOps =>
        /\ be_last.raised = "none"
        /\ DOMAIN be_last.ret = {"stdout", "stderr"}
        /\ be_args.exec = "timeout" => be_last.ret = TimedOutPair

\* the part that holds: the operations that go through the backend
C17_BackendExecutionNeverRaises ==
    be_last.op \in ExecutionOps \ {"RemoteDevice.run_command (ssh)"} =>
        /\ be_last.raised = "none"
        /\ DOMAIN be_last.ret = {"stdout", "stderr"}
        /\ be_args.exec = "timeout" => be_last.ret = TimedOutPair


(***************************************************************************)
(* C18: how a failing provider call is reported.  An operation of the      *)
(* backend interface (create, delete, push, pull, snapshot, restore, stop, *)
(* start) raises nothing and returns a boolean, false whenever one of the  *)
(* provider calls that make up the operation exited non-zero, and a        *)
(* transfer returns true exactly when its "multipass transfer" exited 0.   *)
(* VMRemoteDevice.push and pull raise exactly when the backend operation   *)
(* they called returned false, that is when no transfer exited 0.  The     *)
(* commands run inside the VM with "multipass exec" are not provider       *)
(* calls of the operation: how they end is reported by exec_command.       *)
(***************************************************************************)
BackendOps ==
    {"create_vm", "delete_vm", "push_file", "pull_file", "push_dir", "pull_dir",
     "snapshot", "restore", "stop_vm", "start_vm"}
TransferOps == {"push_file", "pull_file", "push_dir", "pull_dir"}

ProviderCallFailed == \E k \in DOMAIN calls : calls[k].cmd # "exec" /\ calls[k].outcome # "ok"
TransferSucceeded == \E k \in DOMAIN calls : calls[k].cmd = "transfer" /\ calls[k].outcome = "ok"

C18_WitnessBackend ==
    /\ be_last.op = "restore"
    /\ be_last.ret = FALSE
    /\ Len(calls) = 2
    /\ calls[2].outcome = "nonzero"


(***************************************************************************)
(* C19: the exit code of main.  main ends by returning, with 1 when no     *)
(* handler matches the command line or when the handler rejects its input  *)
(* by validation (exec with an app_cmd without ".", or with a --device the *)
(* workspace does not hold), and with 0 otherwise.                         *)
(***************************************************************************)
MainEnded == ws_pc \in {"returned", "raised", "exited"}

NoHandlerMatches == ws_op.handler \notin Subcommands

RejectedByValidation ==
    /\ ws_op.handler = "exec"
    /\ ws_op.cmd_name = NoCmd \/ ws_op.device_id \notin (VMNames \cup {None})

C19_MainExitCodes ==
    MainEnded =>
        /\ ws_pc = "returned"
        /\ ws_mark = IF NoHandlerMatches \/ RejectedByValidation THEN 1 ELSE 0


(***************************************************************************)
(* C20: nothing is retried.  Among the provider calls one operation of the *)
(* backend, of a remote device or of the workspace has issued, no call     *)
(* (launch, delete, purge, exec, transfer, stop, snapshot, restore, start) *)
(* for one node with one argument occurs twice; in particular a call that  *)
(* ended non-zero, timed out or could not be started is not issued again.  *)
(***************************************************************************)
ProviderCalls ==
    {"launch", "delete", "purge", "exec", "transfer", "stop", "snapshot", "restore", "start"}

SameCall(c, d) == c.cmd = d.cmd /\ c.vm = d.vm /\ c.arg = d.arg

C20_NoRetry ==
    \A i, j \in DOMAIN calls :
        (i < j /\ calls[i].cmd \in ProviderCalls) => ~SameCall(calls[i], calls[j])

C20_Witness ==
    /\ be_last.op = "Workspace.stop_vms"
    /\ Len(calls) = 2
    /\ calls[1].outcome = "nonzero"

C20_WitnessTimeout ==
    /\ be_last.op = "pull"
    /\ Len(calls) = 2
    /\ calls[1].outcome = "timeout"


(***************************************************************************)
(* C21: nothing is skipped silently.  Whenever log collection has passed a *)
(* node without collecting from it, because the node declares no logs      *)
(* directory, a diagnostic line about that node has been printed.          *)
(***************************************************************************)
Printed(node_id) == \E k \in DOMAIN calls : calls[k].cmd = "print" /\ calls[k].vm = node_id

SkippedInClog(k) == k \in 1..Len(nodes.ids) /\ k < ws_i /\ logs_dir_is_none(nodes.ids[k])

C21_NoSilentSkip ==
    \A k \in 1..Len(nodes.ids) : SkippedInClog(k) => Printed(nodes.ids[k])

\* the part that holds: a node that is collected from has its line printed
C21_CollectedNodesPrinted ==
    \A k \in 1..Len(nodes.ids) :
        (k < ws_i /\ ~logs_dir_is_none(nodes.ids[k])) => Printed(nodes.ids[k])


(***************************************************************************)
(* C22: create_vms executes every instance command of every declared node  *)
(* exactly once.  The bring-up order it uses is a permutation of the       *)
(* declared node ids, and when create_vms has returned each node has had   *)
(* as many commands executed on it, after the snapshot, as it declares.    *)
(***************************************************************************)
IsPermutation(s, t) ==
    /\ Len(s) = Len(t)
    /\ \A n \in 1..Len(t) : Cardinality({k \in 1..Len(s) : s[k] = t[n]}) = 1

ExecutedAfterSnapshot(node_id) ==
    Cardinality({k \in (ws_mark + 1)..Len(calls) :
                    calls[k].cmd = "exec" /\ calls[k].vm = node_id})

C22_EveryInstanceCommandOnce ==
    ws_pc = "done" =>
        /\ IsPermutation(get_node_id_by_init_orders, nodes.ids)
        /\ \A n \in 1..Len(nodes.ids) :
              ExecutedAfterSnapshot(nodes.ids[n])
                  = Len(nodes.cfg[nodes.ids[n]].instance_commands)

\* the part that holds: with an order that is a permutation of the node ids
C22_PermutationRunsEveryCommandOnce ==
    (IsPermutation(get_node_id_by_init_orders, nodes.ids) /\ ws_pc = "done") =>
        \A n \in 1..Len(nodes.ids) :
            ExecutedAfterSnapshot(nodes.ids[n])
                = Len(nodes.cfg[nodes.ids[n]].instance_commands)


(***************************************************************************)
(* C23: in create_vms the creates come first, then one snapshot, then the  *)
(* instance commands.  Before any command is executed, create has been     *)
(* issued for every declared node and after the creates the address of     *)
(* every declared node has been looked up, once; no create and no lookup   *)
(* follows an executed command; and every command executed is an instance  *)
(* command of its node resolved against that one snapshot.                 *)
(***************************************************************************)
CallsOf(cmd, node_id) == {k \in DOMAIN calls : calls[k].cmd = cmd /\ calls[k].vm = node_id}
Executions == {k \in DOMAIN calls : calls[k].cmd = "exec"}

ResolvedInstanceCommands(node_id, env) ==
    {resolve_string(nodes.cfg[node_id].instance_commands[j], env).value :
         j \in {q \in 1..Len(nodes.cfg[node_id].instance_commands) :
                   ~resolve_string(nodes.cfg[node_id].instance_commands[q], env).raised}}

C23_CreatesThenOneSnapshotThenCommands ==
    /\ ws_pc \in {"create", "build_env"} => Executions = {}
    /\ \A n \in 1..Len(nodes.ids) : Cardinality(CallsOf("info", nodes.ids[n])) <= 1
    /\ \A e \in Executions :
          /\ \A n \in 1..Len(nodes.ids) :
                /\ \E k \in CallsOf("launch", nodes.ids[n]) : k < e
                /\ \E k \in CallsOf("info", nodes.ids[n]) :
                      /\ k < e
                      /\ \A m \in 1..Len(nodes.ids) :
                            \A l \in CallsOf("launch", nodes.ids[m]) : l < k
          /\ \A k \in DOMAIN calls : calls[k].cmd \in {"launch", "info"} => k < e
          /\ calls[e].arg \in ResolvedInstanceCommands(calls[e].vm, ws_env)

C23_Witness ==
    /\ ws_pc = "done"
    /\ \E e, f \in Executions : calls[e].vm = S_a /\ calls[f].vm = S_b


(***************************************************************************)
(* C24: what an environment snapshot holds.  Every snapshot that           *)
(* build_env_params returned maps "system" to the host environment with    *)
(* base_dir and every declared node id to that node's device info, which   *)
(* has the attributes device_id and ip; a snapshot built by                *)
(* execute_app_command maps, besides, the app's name to the parameters of  *)
(* the app on the target node, provided the app's name is neither          *)
(* "system" nor the id of a declared node.                                 *)
(***************************************************************************)
SnapshotReturned == ws_mark = 1

GlobalEntries ==
    /\ S_system \in DOMAIN ws_env
    /\ ws_env[S_system] = SystemEnv
    /\ S_base_dir \in DOMAIN ws_env[S_system]
    /\ \A n \in 1..Len(nodes.ids) :
          /\ nodes.ids[n] \in DOMAIN ws_env
          /\ DOMAIN ws_env[nodes.ids[n]] = {S_device_id, S_ip}
          /\ ws_env[nodes.ids[n]][S_device_id] = nodes.ids[n]

AppEntry ==
    /\ ws_op.app_name \in DOMAIN ws_env
    /\ ws_env[ws_op.app_name] = nodes.cfg[ws_op.device_id].apps[ws_op.app_name]

NameTaken == ws_op.app_name = S_system \/ HasNode(ws_op.app_name)

C24_SnapshotContents ==
    SnapshotReturned =>
        /\ GlobalEntries
        /\ (ws_op.handler = "execute_app_command" /\ ~NameTaken) => AppEntry

\* the statement without the proviso
C24_SnapshotAlwaysHoldsAppParameters ==
    SnapshotReturned =>
        /\ GlobalEntries
        /\ ws_op.handler = "execute_app_command" => AppEntry

C24_Witness ==
    /\ SnapshotReturned
    /\ ws_op.handler = "execute_app_command"
    /\ ws_op.app_name = S_app
    /\ ws_pc = "done"

C24_WitnessGlobal ==
    /\ SnapshotReturned
    /\ ws_op.handler = "info_vms"


(***************************************************************************)
(* C25: VMRemoteDevice.pull probes, then transfers.  The first call of     *)
(* pull is the probe of the remote path on the device.  When the probe     *)
(* ran and printed DIR the directory transfer is used: the local directory *)
(* is made and the transfer is recursive whatever the caller's flag, or    *)
(* no transfer is issued when the directory cannot be made.  In every      *)
(* other case (FILE printed, non-zero exit, timeout, failure to start)     *)
(* the file transfer is issued, recursive exactly when the caller asked.   *)
(***************************************************************************)
PullEnded == be_last.op = "pull"

ProbeReportsDirectory == calls[1].outcome = "ok" /\ be_args.probe = "DIR"

IsRecursiveTransfer(c) ==
    /\ c.cmd = "transfer"
    /\ Len(c.arg) >= 2
    /\ SubSeq(c.arg, 1, 2) = <<"-", "r">>

IsPlainTransfer(c) ==
    /\ c.cmd = "transfer"
    /\ c.arg[1] # "-"

C25_PullProbesThenTransfers ==
    PullEnded =>
        /\ Len(calls) \in {1, 2}
        /\ calls[1].cmd = "exec"
        /\ calls[1].vm = be_last.vm
        /\ calls[1].outcome = ExecExit(multipass, be_last.vm, be_args.exec)
        /\ ProbeReportsDirectory =>
              \/ Len(calls) = 1 /\ be_last.raised = "Exception"
              \/ Len(calls) = 2 /\ IsRecursiveTransfer(calls[2])
        /\ ~ProbeReportsDirectory =>
              /\ Len(calls) = 2
              /\ calls[2].vm = be_last.vm
              /\ IF be_args.recursive THEN IsRecursiveTransfer(calls[2])
                 ELSE IsPlainTransfer(calls[2])

\* a directory pulled without the caller's flag
C25_Witness ==
    /\ PullEnded
    /\ ProbeReportsDirectory
    /\ ~be_args.recursive
    /\ Len(calls) = 2
    /\ IsRecursiveTransfer(calls[2])
    /\ be_last.raised = "none"

\* a probe that timed out is answered with the file transfer
C25_WitnessProbeTimedOut ==
    /\ PullEnded
    /\ be_args.probe = "DIR"
    /\ calls[1].outcome = "timeout"
    /\ ~be_args.recursive
    /\ IsPlainTransfer(calls[2])


(***************************************************************************)
(* C26: Workspace.update skips an app the target node does not declare.    *)
(* An update of a declared node for requested apps that are all loaded     *)
(* app descriptors, none of them declared for the node, skips every one    *)
(* of them: it raises nothing and executes nothing.                        *)
(***************************************************************************)
NoneDeclared(device_id) ==
    /\ HasNode(device_id)
    /\ \A k \in 1..Len(RequestedApps) :
          /\ ~AppList_get_app_is_none(RequestedApps[k])
          /\ ~have_app(device_id, RequestedApps[k])

C26_UpdateSkipsUndeclaredApps ==
    (/\ ws_op.handler = "update"
     /\ processed # <<>>
     /\ NoneDeclared(LastDevice)) =>
        /\ LastRaised = "none"
        /\ NothingExecuted

\* install, whose shape update is said to follow, does skip them
C26_InstallSkipsUndeclaredApps ==
    (/\ ws_op.handler = "install"
     /\ processed # <<>>
     /\ NoneDeclared(LastDevice)) =>
        /\ LastRaised = "none"
        /\ NothingExecuted
        /\ \A k \in 1..Len(RequestedApps) :
              \E c \in DOMAIN calls :
                  calls[c] = Call("print", LastDevice, RequestedApps[k], "ok")


(***************************************************************************)
(* C27: a template is resolved just before its own command is executed.    *)
(* When a batch handed to Workspace.run has ended, the commands executed   *)
(* are, in order, the resolved texts of the commands before the first one  *)
(* that does not resolve against the snapshot, all of them when every one  *)
(* resolves; run raises exactly when a command does not resolve.  In       *)
(* create_vms the batches are the instance commands in bring-up order,     *)
(* node after node: the first command that does not resolve ends           *)
(* create_vms, and no command after it, of its node or of a later node,    *)
(* is executed.                                                            *)
(***************************************************************************)
Unresolved(cmds, env) == {k \in 1..Len(cmds) : resolve_string(cmds[k], env).raised}

FirstUnresolved(cmds, env) ==
    IF Unresolved(cmds, env) = {} THEN Len(cmds) + 1
    ELSE CHOOSE k \in Unresolved(cmds, env) : \A q \in Unresolved(cmds, env) : k <= q

\* what is executed of the commands cmds, given as pairs <<device, template>>
ExecutedOf(cmds, env) ==
    [k \in 1..(FirstUnresolved([q \in 1..Len(cmds) |-> cmds[q][2]], env) - 1) |->
        <<cmds[k][1], resolve_string(cmds[k][2], env).value>>]

IsExec(c) == c.cmd = "exec"
ExecutedSince(m) ==
    LET s == SelectSeq(SubSeq(calls, m + 1, Len(calls)), IsExec)
    IN  [k \in 1..Len(s) |-> <<s[k].vm, s[k].arg>>]

OnDevice(device_id, cmds) == [k \in 1..Len(cmds) |-> <<device_id, cmds[k]>>]

\* the instance commands of the entries k.. of the bring-up order
RECURSIVE InstanceCommandsFrom(_)
InstanceCommandsFrom(k) ==
    IF k > Len(get_node_id_by_init_orders) THEN <<>>
    ELSE OnDevice(get_node_id_by_init_orders[k], InstanceCommandsAt(k))
         \o InstanceCommandsFrom(k + 1)

BatchEnded ==
    /\ ws_op.handler = "execute_app_command"
    /\ ws_pc \in {"done", "raised"}
    /\ SnapshotReturned
    /\ ~AppList_get_app_is_none(ws_op.app_name)
    /\ ~AppConfig_get_command_is_none(app_list.cfg[ws_op.app_name], ws_op.cmd_name)

Batch == app_list.cfg[ws_op.app_name].commands[ws_op.cmd_name]

InstanceLoopEnded ==
    /\ ws_op.handler = "none"
    /\ ws_pc = "done" \/ (ws_pc = "raised" /\ ws_j > 1)

C27_ResolvedJustBeforeExecution ==
    /\ BatchEnded =>
          /\ ExecutedSince(0) = ExecutedOf(OnDevice(ws_op.device_id, Batch), ws_env)
          /\ ws_error = IF Unresolved(Batch, ws_env) = {} THEN "none" ELSE "ValueError"
    /\ InstanceLoopEnded =>
          /\ ExecutedSince(ws_mark) = ExecutedOf(InstanceCommandsFrom(1), ws_env)
          /\ (ws_pc = "raised") =
                (FirstUnresolved([q \in 1..Len(InstanceCommandsFrom(1)) |->
                                     InstanceCommandsFrom(1)[q][2]], ws_env)
                    <= Len(InstanceCommandsFrom(1)))

\* the second command of three does not resolve: the first has been executed
C27_Witness ==
    /\ BatchEnded
    /\ Len(Batch) = 3
    /\ FirstUnresolved(Batch, ws_env) = 2
    /\ Len(ExecutedSince(0)) = 1
    /\ ws_pc = "raised"

\* create_vms ended by a command of the first node in the order, the second
\* node's commands never executed
C27_WitnessCreateVms ==
    /\ InstanceLoopEnded
    /\ ws_pc = "raised"
    /\ ws_k = 1
    /\ Len(get_node_id_by_init_orders) = 2
    /\ InstanceCommandsAt(2) # <<>>
    /\ Len(InstanceCommandsAt(1)) = 2
    /\ ExecutedSince(ws_mark) = <<>>


(***************************************************************************)
(* C28: a snapshot that cannot be built ends create_vms before any         *)
(* instance command.  When the create loop is over and some declared node  *)
(* is not running at the provider (its create failed), create_vms has      *)
(* raised at the snapshot step.  Whenever create_vms has raised at the     *)
(* snapshot step, what was raised is the error of the address lookup, a    *)
(* launch has been issued for every declared node, and no command has      *)
(* been executed after the first address lookup.                           *)
(***************************************************************************)
CreateLoopOver == ws_op.handler = "none" /\ ws_pc \in {"instance", "done", "raised"}

RaisedAtSnapshot == ws_op.handler = "none" /\ ws_pc = "raised" /\ ws_j = 1

SomeCreateFailed == \E n \in 1..Len(nodes.ids) : multipass[nodes.ids[n]].state # "running"

C28_SnapshotFailureEndsCreateVms ==
    /\ (CreateLoopOver /\ SomeCreateFailed) => RaisedAtSnapshot
    /\ RaisedAtSnapshot =>
          /\ ws_error \in {"CalledProcessError", "RuntimeError", "AttributeError"}
          /\ \A n \in 1..Len(nodes.ids) : CallsOf("launch", nodes.ids[n]) # {}
          /\ calls[Len(calls)].cmd = "info"
          /\ \A e \in Executions : \A k \in DOMAIN calls : calls[k].cmd = "info" => e < k
    /\ (CreateLoopOver /\ ~RaisedAtSnapshot) =>
          \A n \in 1..Len(nodes.ids) : nodes.ids[n] \in DOMAIN ws_env

\* the second node's create failed: both launches issued, the first node's
\* address looked up, the second's refused, nothing executed
C28_Witness ==
    /\ RaisedAtSnapshot
    /\ multipass[nodes.ids[1]].state = "running"
    /\ multipass[nodes.ids[2]].state = "absent"
    /\ Cardinality({k \in DOMAIN calls : calls[k].cmd = "info"}) = 2
    /\ ws_error = "CalledProcessError"
    /\ Executions = {}
    /\ InstanceCommandsFrom(1) # <<>>


(***************************************************************************)
(* C29: a rejected construction request leaves the binding alone.  A       *)
(* request that raises changes neither the backend type the class holds    *)
(* nor the initialisation and the backend object of the instance; while    *)
(* no request has been accepted no backend type is bound and the instance, *)
(* if one was allocated, holds no backend; and a request for "multipass"   *)
(* made when every request before it was rejected is accepted and binds    *)
(* "multipass".                                                            *)
(***************************************************************************)
Bound(inst, h) == IF inst = NoObject THEN FreshObject ELSE h[inst]

RequestRejected == Len(requests') = Len(requests) + 1 /\ requests'[Len(requests')].raised # "none"

BindingUnchanged ==
    /\ VMManager_backend_type' = VMManager_backend_type
    /\ Bound(VMManager_instance', heap') = Bound(VMManager_instance, heap)
    /\ VMManager_instance # NoObject => VMManager_instance' = VMManager_instance

Accepted == {i \in DOMAIN requests : requests[i].raised = "none"}

UnboundUntilAccepted ==
    Accepted = {} =>
        /\ VMManager_backend_type = "None"
        /\ Bound(VMManager_instance, heap) = FreshObject

SupportedAfterRejectedSucceeds ==
    \A i \in DOMAIN requests :
        (requests[i].backend_type = "multipass" /\ \A j \in 1..(i - 1) : j \notin Accepted) =>
            /\ i \in Accepted
            /\ requests[i].backend # NoObject
            /\ VMManager_backend_type = "multipass"

C29_RejectedRequestKeepsBinding ==
    /\ [][RequestRejected => BindingUnchanged]_vars
    /\ [](UnboundUntilAccepted /\ SupportedAfterRejectedSucceeds)

\* an unsupported request rejected, then "multipass" accepted and bound,
\* then a mismatching request rejected
C29_Witness ==
    /\ Len(requests) >= 3
    /\ requests[1].backend_type = "docker" /\ requests[1].raised = "ValueError"
    /\ requests[2].backend_type = "multipass" /\ requests[2].raised = "none"
    /\ requests[3].backend_type = "kvm" /\ requests[3].raised = "ValueError"
    /\ VMManager_backend_type = "multipass"
    /\ heap[VMManager_instance].backend = requests[2].backend


(***************************************************************************)
(* C30: the workspace-wide VM operations visit every node once.  When      *)
(* clean_vms, stop_vms, start_vms, snapshot or restore has ended, the      *)
(* provider calls issued are those of one backend call per declared node   *)
(* (the backend operation's first provider command occurs exactly once     *)
(* for every node), the calls of an earlier node of the topology come      *)
(* before those of a later one, and the operation has returned None        *)
(* without raising, whatever the backend calls answered.                   *)
(***************************************************************************)
WorkspaceOperations ==
    {"Workspace.clean_vms", "Workspace.stop_vms", "Workspace.start_vms",
     "Workspace.snapshot", "Workspace.restore"}

\* the provider command every call of the backend operation begins with
FirstCommand(op) ==
    CASE op = "Workspace.clean_vms"  -> "delete"
      [] op = "Workspace.start_vms"  -> "start"
      [] OTHER                       -> "stop"

PositionOf(node_id) == CHOOSE n \in 1..Len(OperationNodes) : OperationNodes[n] = node_id

WorkspaceOperationEnded == be_last.op \in WorkspaceOperations

C30_OneBackendCallPerNodeInOrder ==
    WorkspaceOperationEnded =>
        /\ be_last.raised = "none"
        /\ be_last.ret = <<>>
        /\ \A k \in DOMAIN calls : \E n \in 1..Len(OperationNodes) : calls[k].vm = OperationNodes[n]
        /\ \A n \in 1..Len(OperationNodes) :
              Cardinality(CallsOf(FirstCommand(be_last.op), OperationNodes[n])) = 1
        /\ \A k, l \in DOMAIN calls :
              k < l => PositionOf(calls[k].vm) <= PositionOf(calls[l].vm)

\* the backend call for the first node answered false, the second node's
\* call was made and succeeded
C30_Witness ==
    /\ WorkspaceOperationEnded
    /\ be_last.op = "Workspace.snapshot"
    /\ calls[1].vm = OperationNodes[1]
    /\ calls[1].outcome = "nonzero"
    /\ Len(calls) = 4
    /\ \A k \in 2..4 : calls[k].vm = OperationNodes[2] /\ calls[k].outcome = "ok"

=============================================================================
